---- MODULE Spec2Model ----
(***************************************************************************)
(* A model of the round lifecycle, the profit engine and the bet           *)
(* settlement of the colour-prediction game backend:                       *)
(*   GameService            (scheduler tick, round creation),              *)
(*   GameAdminService       (declare, auto-calculate, status, cancel),     *)
(*   ProfitEngineService    (liability of the ten digits, selection),      *)
(*   BetService.placeBet    (bet placement).                               *)
(*                                                                         *)
(* Every service method is asynchronous: between two awaited database      *)
(* calls any other request or timer callback may run.  Each awaited call   *)
(* is one atomic step of the model, and a prisma.$transaction block is one *)
(* atomic step as well.  A request in flight is a process (procs[p]) that  *)
(* holds the method's local variables and its position.                    *)
(*                                                                         *)
(* Money is counted in hundredths of the currency unit, multipliers in     *)
(* hundredths as well (1.95 is 195).  Stakes are whole currency units, so  *)
(* every product stake * multiplier has at most two decimals and is        *)
(* stored exactly by the DECIMAL(15,2) columns.                            *)
(* A nullable column holds <<>> (null) or <<v>>.                           *)
(***************************************************************************)
EXTENDS Integers, Sequences, FiniteSets, TLC

(***************************************************************************)
(* Bounds of the model.                                                    *)
(***************************************************************************)
MaxRounds == 2
MaxBets == 2
MaxProcs == 2
MaxAdminOps == 1
NumUsers == 1

Users == 1..NumUsers
Procs == 1..MaxProcs
Digits == 0..9

\* Wallet balance of every user before the first bet, and the stakes drawn.
InitialBalance == 2000
Stakes == {1000}

\* (betType, selection) pairs a placement request may carry, as sent by the
\* client (the validation middleware accepts any letter case).
BetChoices == {<<"SIZE", "BIG">>, <<"SIZE", "small">>}

\* Selectors an admin may send to declareResult.
AdminOptions == {"5", "PURPLE"}

\* Targets an admin may send to updateRoundStatus.
StatusTargets == {"OPEN", "PAUSED", "CLOSED", "RESULT_DECLARED"}

\* Values of Math.random(), in hundredths.
RandomDraws == {5, 95}

(***************************************************************************)
(* src/config/constants.js                                                 *)
(***************************************************************************)
PAYOUTS ==
  [COLOR |-> [GREEN |-> 195, RED |-> 195, VIOLET |-> 450],
   NUMBER |-> 850,
   SIZE |-> [BIG |-> 195, SMALL |-> 195]]

\* A colour table in which 0 is GREEN.
NUMBER_COLORS_ZeroGreen ==
  [n \in Digits |->
     CASE n = 5 -> "VIOLET"
       [] n \in {0, 1, 3, 7, 9} -> "GREEN"
       [] OTHER -> "RED"]

NUMBER_COLORS ==
  [n \in Digits |->
     CASE n \in {0, 5} -> "VIOLET"
       [] n \in {1, 3, 7, 9} -> "GREEN"
       [] OTHER -> "RED"]

NUMBER_SIZES == [n \in Digits |-> IF n <= 4 THEN "SMALL" ELSE "BIG"]

\* ProfitEngineService constructor
MIN_PROFIT_PERCENT == 5
MAX_LOSS_PER_ROUND == 0
HIGH_PROFIT_WEIGHT == 70
MEDIUM_PROFIT_WEIGHT == 20

\* The reduced dual-colour multiplier written in processBetsWithResult.
DUAL_COLOR_PAYOUT == 145

\* Number of declared rounds cleanupOldRounds keeps.
KEEP_ROUNDS == 500

(***************************************************************************)
(* Conversions                                                             *)
(***************************************************************************)
Null == <<>>
Some(v) == <<v>>
IsNull(x) == x = <<>>
Val(x) == x[1]

DigitStrings == <<"0", "1", "2", "3", "4", "5", "6", "7", "8", "9">>

\* /^[0-9]$/.test(s)
IsDigitString(s) == \E i \in 1..10 : DigitStrings[i] = s

\* parseInt(s) of a one-digit string
ParseInt(s) == (CHOOSE i \in 1..10 : DigitStrings[i] = s) - 1

\* String.prototype.toUpperCase on the words the model draws
ToUpperCase(s) ==
  CASE s = "green" -> "GREEN"
    [] s = "red" -> "RED"
    [] s = "violet" -> "VIOLET"
    [] s = "big" -> "BIG"
    [] s = "small" -> "SMALL"
    [] OTHER -> s

\* parseFloat(amount) * multiplier
Times(amount, multiplier) == (amount * multiplier) \div 100

\* Math.floor(Math.random() * n) for the draw r
FloorRandom(r, n) == (r * n) \div 100

RECURSIVE SumSeq(_)
SumSeq(s) == IF s = <<>> THEN 0 ELSE Head(s) + SumSeq(Tail(s))

\* The sequence of the values f[i], i in ids, in ascending order of i
RECURSIVE SeqOfIds(_)
SeqOfIds(ids) ==
  IF ids = {} THEN <<>>
  ELSE LET m == CHOOSE i \in ids : \A j \in ids : i <= j
       IN <<m>> \o SeqOfIds(ids \ {m})

(***************************************************************************)
(* ProfitEngineService.calculateAllResultsLiability                        *)
(***************************************************************************)
\* A liability in which a COLOR bet on the candidate's colour is counted in
\* both branches when the candidate is 0 or 5.
BetLiabilityBothBranches(bet, number) ==
  LET color == NUMBER_COLORS[number]
      size == NUMBER_SIZES[number]
  IN IF bet.betType = "COLOR"
     THEN (IF bet.selection = color
           THEN Times(bet.amount,
                      IF color = "VIOLET" THEN PAYOUTS.COLOR.VIOLET
                      ELSE PAYOUTS.COLOR[color])
           ELSE 0)
          + (IF bet.selection = "VIOLET" /\ (number = 0 \/ number = 5)
             THEN Times(bet.amount, PAYOUTS.COLOR.VIOLET)
             ELSE 0)
     ELSE IF bet.betType = "SIZE"
     THEN IF bet.selection = size
          THEN Times(bet.amount, PAYOUTS.SIZE[size])
          ELSE 0
     ELSE IF bet.betType = "NUMBER"
     THEN IF ParseInt(bet.selection) = number
          THEN Times(bet.amount, PAYOUTS.NUMBER)
          ELSE 0
     ELSE 0

\* What one bet adds to the liability of the candidate `number`.
BetLiability(bet, number) ==
  LET color == NUMBER_COLORS[number]
      size == NUMBER_SIZES[number]
  IN IF bet.betType = "COLOR"
     THEN IF bet.selection = color
          THEN Times(bet.amount,
                     IF color = "VIOLET" THEN PAYOUTS.COLOR.VIOLET
                     ELSE PAYOUTS.COLOR[color])
          ELSE IF bet.selection = "VIOLET" /\ (number = 0 \/ number = 5)
               THEN Times(bet.amount, PAYOUTS.COLOR.VIOLET)
               ELSE 0
     ELSE IF bet.betType = "SIZE"
     THEN IF bet.selection = size
          THEN Times(bet.amount, PAYOUTS.SIZE[size])
          ELSE 0
     ELSE IF bet.betType = "NUMBER"
     THEN IF ParseInt(bet.selection) = number
          THEN Times(bet.amount, PAYOUTS.NUMBER)
          ELSE 0
     ELSE 0

\* profitPercent >= pct, with profitPercent = collection > 0 ? profit / collection * 100 : 0
ProfitPercentAtLeast(profit, collection, pct) ==
  IF collection > 0 THEN profit * 100 >= pct * collection ELSE 0 >= pct

\* The candidate record pushed for `number` (the rows are a sequence of bets).
Candidate(rows, number) ==
  LET totalCollection == SumSeq([i \in 1..Len(rows) |-> rows[i].amount])
      totalLiability == SumSeq([i \in 1..Len(rows) |-> BetLiability(rows[i], number)])
      profit == totalCollection - totalLiability
  IN [number |-> number,
      color |-> NUMBER_COLORS[number],
      size |-> NUMBER_SIZES[number],
      totalLiability |-> totalLiability,
      totalCollection |-> totalCollection,
      profit |-> profit,
      isProfitable |-> profit >= 0
                       /\ ProfitPercentAtLeast(profit, totalCollection, MIN_PROFIT_PERCENT),
      isAcceptable |-> profit >= -MAX_LOSS_PER_ROUND,
      selectedRank |-> "null"]

\* An insertion that puts a candidate before the candidates of equal profit.
RECURSIVE InsertBeforeEqualProfit(_, _)
InsertBeforeEqualProfit(sorted, c) ==
  IF sorted = <<>> THEN <<c>>
  ELSE IF Head(sorted).profit > c.profit
       THEN <<Head(sorted)>> \o InsertBeforeEqualProfit(Tail(sorted), c)
       ELSE <<c>> \o sorted

\* Array.prototype.sort((a, b) => b.profit - a.profit): stable, descending.
RECURSIVE InsertByProfit(_, _)
InsertByProfit(sorted, c) ==
  IF sorted = <<>> THEN <<c>>
  ELSE IF Head(sorted).profit >= c.profit
       THEN <<Head(sorted)>> \o InsertByProfit(Tail(sorted), c)
       ELSE <<c>> \o sorted

RECURSIVE SortByProfit(_)
SortByProfit(s) ==
  IF s = <<>> THEN <<>>
  ELSE InsertByProfit(SortByProfit(SubSeq(s, 1, Len(s) - 1)), s[Len(s)])

\* The return value; `results = <<>>` stands for the null returned without bets.
NoCalculation == [totalCollection |-> 0, totalBets |-> 0, results |-> <<>>]

calculateAllResultsLiability(rows) ==
  IF Len(rows) = 0 THEN NoCalculation
  ELSE [totalCollection |-> SumSeq([i \in 1..Len(rows) |-> rows[i].amount]),
        totalBets |-> Len(rows),
        results |-> SortByProfit([i \in 1..10 |-> Candidate(rows, i - 1)])]

\* calculation.results.find(r => r.number === n)
FindResult(calculation, n) ==
  LET i == CHOOSE j \in 1..Len(calculation.results) : calculation.results[j].number = n
  IN calculation.results[i]

(***************************************************************************)
(* ProfitEngineService.selectWeightedResult / calculateOptimalResult       *)
(***************************************************************************)
\* {...undefined, selectedRank, allResults}: an object without number or profit
Undefined ==
  [number |-> -1, color |-> "undefined", size |-> "undefined",
   totalLiability |-> 0, totalCollection |-> 0, profit |-> 0,
   isProfitable |-> FALSE, isAcceptable |-> FALSE, selectedRank |-> "undefined"]

IsUndefined(c) == c.number = -1

\* A selection that falls back on the last candidate of the ranking.
selectWeightedResultLastResort(calculation, r1, r2) ==
  LET results == calculation.results
      acceptableResults == SelectSeq(results, LAMBDA r : r.isAcceptable)
  IN IF Len(acceptableResults) = 0 THEN results[Len(results)]
     ELSE [acceptableResults[FloorRandom(r1, Len(acceptableResults)) + 1]
             EXCEPT !.selectedRank = "RANDOM"]

\* A selection whose random branch draws from all ten candidates.
selectWeightedResultFromAll(calculation, r1, r2) ==
  LET results == calculation.results
      profitableResults == SelectSeq(results, LAMBDA r : r.isAcceptable /\ r.isProfitable)
      highProfit == IF Len(profitableResults) >= 1 THEN profitableResults[1] ELSE Undefined
  IN IF r2 < HIGH_PROFIT_WEIGHT + MEDIUM_PROFIT_WEIGHT
     THEN highProfit
     ELSE [results[FloorRandom(r1, Len(results)) + 1] EXCEPT !.selectedRank = "RANDOM"]

\* r1 is the draw of randomResult, r2 the draw of the weighted choice.
selectWeightedResult(calculation, r1, r2) ==
  LET results == calculation.results
      acceptableResults == SelectSeq(results, LAMBDA r : r.isAcceptable)
      profitableResults == SelectSeq(acceptableResults, LAMBDA r : r.isProfitable)
      highProfit == IF Len(profitableResults) >= 1 THEN profitableResults[1] ELSE Undefined
      mid == Len(profitableResults) \div 2
      mediumProfit == IF mid + 1 <= Len(profitableResults)
                      THEN profitableResults[mid + 1] ELSE highProfit
      randomResult == acceptableResults[FloorRandom(r1, Len(acceptableResults)) + 1]
  IN IF Len(acceptableResults) = 0 THEN results[1]
     ELSE IF r2 < HIGH_PROFIT_WEIGHT
          THEN [highProfit EXCEPT !.selectedRank =
                   IF IsUndefined(highProfit) THEN "undefined" ELSE "HIGH_PROFIT"]
     ELSE IF r2 < HIGH_PROFIT_WEIGHT + MEDIUM_PROFIT_WEIGHT
          THEN [mediumProfit EXCEPT !.selectedRank =
                   IF IsUndefined(mediumProfit) THEN "undefined" ELSE "MEDIUM_PROFIT"]
     ELSE [randomResult EXCEPT !.selectedRank = "RANDOM"]

\* A selection whose random digit without bets is drawn from 0..8.
calculateOptimalResultNineDigits(rows, r0, r1, r2) ==
  LET calculation == calculateAllResultsLiability(rows)
      randomNumber == FloorRandom(r0, 9)
  IN IF calculation.results = <<>>
     THEN [number |-> randomNumber,
           color |-> NUMBER_COLORS[randomNumber],
           size |-> NUMBER_SIZES[randomNumber],
           totalLiability |-> 0, totalCollection |-> 0, profit |-> 0,
           isProfitable |-> TRUE, isAcceptable |-> TRUE,
           selectedRank |-> "RANDOM_NO_BETS"]
     ELSE selectWeightedResult(calculation, r1, r2)

\* r0 is the draw of the no-bets branch.  An Undefined result stands for the
\* TypeError that selected.profit.toFixed(2) throws in the log line.
calculateOptimalResult(rows, r0, r1, r2) ==
  LET calculation == calculateAllResultsLiability(rows)
      randomNumber == FloorRandom(r0, 10)
  IN IF calculation.results = <<>>
     THEN [number |-> randomNumber,
           color |-> NUMBER_COLORS[randomNumber],
           size |-> NUMBER_SIZES[randomNumber],
           totalLiability |-> 0, totalCollection |-> 0, profit |-> 0,
           isProfitable |-> TRUE, isAcceptable |-> TRUE,
           selectedRank |-> "RANDOM_NO_BETS"]
     ELSE selectWeightedResult(calculation, r1, r2)

\* calculateAllResultsLiability of a service constructed with
\* env.MAX_LOSS_PER_ROUND = maxLoss: the same ranking, isAcceptable by maxLoss
calculateAllResultsLiabilityWith(rows, maxLoss) ==
  LET calculation == calculateAllResultsLiability(rows)
      results == calculation.results
  IN [calculation EXCEPT !.results =
        [i \in 1..Len(results) |->
           [results[i] EXCEPT !.isAcceptable = results[i].profit >= -maxLoss]]]

\* calculateOptimalResult of that service
calculateOptimalResultWith(rows, maxLoss, r0, r1, r2) ==
  IF rows = <<>> THEN calculateOptimalResult(rows, r0, r1, r2)
  ELSE selectWeightedResult(calculateAllResultsLiabilityWith(rows, maxLoss), r1, r2)

(***************************************************************************)
(* ProfitEngineService.validateAdminResult and the selector parsing of     *)
(* GameAdminService.declareResult                                          *)
(***************************************************************************)
\* Object.entries(map).find(([num, v]) => v === value)?.[0]
FirstNumberWith(map, value) ==
  CHOOSE n \in Digits : map[n] = value /\ \A m \in 0..(n - 1) : map[m] # value

\* A resolution that takes the last digit of the colour or size.
TargetNumberLastMatch(winningOption) ==
  IF IsDigitString(winningOption) THEN ParseInt(winningOption)
  ELSE IF ToUpperCase(winningOption) \in {"GREEN", "RED", "VIOLET"}
       THEN CHOOSE n \in Digits :
              /\ NUMBER_COLORS[n] = ToUpperCase(winningOption)
              /\ \A m \in (n + 1)..9 : NUMBER_COLORS[m] # ToUpperCase(winningOption)
  ELSE IF ToUpperCase(winningOption) \in {"BIG", "SMALL"}
       THEN CHOOSE n \in Digits :
              /\ NUMBER_SIZES[n] = ToUpperCase(winningOption)
              /\ \A m \in (n + 1)..9 : NUMBER_SIZES[m] # ToUpperCase(winningOption)
  ELSE -1

\* targetNumber of validateAdminResult; -1 stands for null
TargetNumber(winningOption) ==
  IF IsDigitString(winningOption) THEN ParseInt(winningOption)
  ELSE IF ToUpperCase(winningOption) \in {"GREEN", "RED", "VIOLET"}
       THEN FirstNumberWith(NUMBER_COLORS, ToUpperCase(winningOption))
  ELSE IF ToUpperCase(winningOption) \in {"BIG", "SMALL"}
       THEN FirstNumberWith(NUMBER_SIZES, ToUpperCase(winningOption))
  ELSE -1

\* A validation that only rejects a selector it cannot parse.
validateAdminResultNoLossLimit(rows, winningOption) ==
  Len(rows) = 0 \/ TargetNumber(winningOption) # -1

\* A validation that also rejects a candidate that is not isProfitable.
validateAdminResultProfitableOnly(rows, winningOption) ==
  LET calculation == calculateAllResultsLiability(rows)
      targetNumber == TargetNumber(winningOption)
  IN IF calculation.results = <<>> THEN TRUE
     ELSE IF targetNumber = -1 THEN FALSE
     ELSE FindResult(calculation, targetNumber).isAcceptable
            /\ FindResult(calculation, targetNumber).isProfitable

\* validation.valid
validateAdminResult(rows, winningOption) ==
  LET calculation == calculateAllResultsLiability(rows)
      targetNumber == TargetNumber(winningOption)
  IN IF calculation.results = <<>> THEN TRUE
     ELSE IF targetNumber = -1 THEN FALSE
     ELSE FindResult(calculation, targetNumber).isAcceptable

\* declareResult lines 42-74: <<valid, winningNumber, winningColor, winningSize>>
ParseWinningOption(winningOption) ==
  IF IsDigitString(winningOption)
  THEN LET n == ParseInt(winningOption)
       IN [valid |-> TRUE, winningNumber |-> n,
           winningColor |-> NUMBER_COLORS[n], winningSize |-> NUMBER_SIZES[n]]
  ELSE IF ToUpperCase(winningOption) \in {"GREEN", "RED", "VIOLET"}
  THEN LET c == ToUpperCase(winningOption)
           n == FirstNumberWith(NUMBER_COLORS, c)
       IN [valid |-> TRUE, winningNumber |-> n,
           winningColor |-> c, winningSize |-> NUMBER_SIZES[n]]
  ELSE IF ToUpperCase(winningOption) \in {"BIG", "SMALL"}
  THEN LET s == ToUpperCase(winningOption)
           n == FirstNumberWith(NUMBER_SIZES, s)
       IN [valid |-> TRUE, winningNumber |-> n,
           winningColor |-> NUMBER_COLORS[n], winningSize |-> s]
  ELSE [valid |-> FALSE, winningNumber |-> -1,
        winningColor |-> "null", winningSize |-> "null"]

\* BetService.processBets: the isWin and winAmount of one bet of the loop.
processBets(bet, winningNumber, winningColor, winningSize) ==
  IF bet.betType = "NUMBER"
  THEN IF ParseInt(bet.selection) = winningNumber
       THEN [isWin |-> TRUE, winAmount |-> Times(bet.amount, PAYOUTS.NUMBER)]
       ELSE [isWin |-> FALSE, winAmount |-> 0]
  ELSE IF bet.betType = "COLOR"
  THEN IF bet.selection = "VIOLET" /\ (winningNumber = 0 \/ winningNumber = 5)
       THEN [isWin |-> TRUE, winAmount |-> Times(bet.amount, PAYOUTS.COLOR.VIOLET)]
       ELSE IF bet.selection = winningColor
       THEN [isWin |-> TRUE,
             winAmount |-> Times(bet.amount, PAYOUTS.COLOR[winningColor])]
       ELSE [isWin |-> FALSE, winAmount |-> 0]
  ELSE IF bet.betType = "SIZE"
  THEN IF bet.selection = winningSize
       THEN [isWin |-> TRUE, winAmount |-> Times(bet.amount, PAYOUTS.SIZE[winningSize])]
       ELSE [isWin |-> FALSE, winAmount |-> 0]
  ELSE [isWin |-> FALSE, winAmount |-> 0]

(***************************************************************************)
(* GameAdminService.processBetsWithResult: the outcome of one bet          *)
(***************************************************************************)
\* A settlement that pays every winning bet the even-money multiplier 1.95.
SettleOutcomeEvenMoney(bet, winningNumber, winningColor, winningSize) ==
  LET wins == \/ (bet.betType = "NUMBER" /\ ParseInt(bet.selection) = winningNumber)
              \/ (bet.betType = "COLOR" /\ bet.selection = "VIOLET"
                    /\ winningNumber \in {0, 5})
              \/ (bet.betType = "COLOR" /\ bet.selection = winningColor)
              \/ (bet.betType = "SIZE" /\ bet.selection = winningSize)
  IN [isWin |-> wins,
      winAmount |-> IF wins THEN Times(bet.amount, PAYOUTS.SIZE.BIG) ELSE 0]

SettleOutcome(bet, winningNumber, winningColor, winningSize) ==
  IF bet.betType = "NUMBER"
  THEN IF ParseInt(bet.selection) = winningNumber
       THEN [isWin |-> TRUE, winAmount |-> Times(bet.amount, PAYOUTS.NUMBER)]
       ELSE [isWin |-> FALSE, winAmount |-> 0]
  ELSE IF bet.betType = "COLOR"
  THEN IF bet.selection = "VIOLET" /\ (winningNumber = 0 \/ winningNumber = 5)
       THEN [isWin |-> TRUE, winAmount |-> Times(bet.amount, PAYOUTS.COLOR.VIOLET)]
       ELSE IF bet.selection = winningColor
       THEN IF (winningNumber = 0 /\ bet.selection = "GREEN")
               \/ (winningNumber = 5 /\ bet.selection = "RED")
            THEN [isWin |-> TRUE, winAmount |-> Times(bet.amount, DUAL_COLOR_PAYOUT)]
            ELSE [isWin |-> TRUE,
                  winAmount |-> Times(bet.amount, PAYOUTS.COLOR[winningColor])]
       ELSE [isWin |-> FALSE, winAmount |-> 0]
  ELSE IF bet.betType = "SIZE"
  THEN IF bet.selection = winningSize
       THEN [isWin |-> TRUE, winAmount |-> Times(bet.amount, PAYOUTS.SIZE[winningSize])]
       ELSE [isWin |-> FALSE, winAmount |-> 0]
  ELSE [isWin |-> FALSE, winAmount |-> 0]

(***************************************************************************)
(* RiskDashboardService.calculateResultAnalysis                            *)
(***************************************************************************)
\* A dashboard payout in which a GREEN bet wins 1.45 on 0 and a RED bet on 5.
DashboardWinAmountDualColor(bet, number) ==
  IF bet.betType = "COLOR"
       /\ ((number = 0 /\ bet.selection = "GREEN") \/ (number = 5 /\ bet.selection = "RED"))
  THEN Times(bet.amount, DUAL_COLOR_PAYOUT)
  ELSE BetLiability(bet, number)

\* winAmount of one bet for the candidate `number` (0 when the bet loses)
DashboardWinAmount(bet, number) ==
  LET color == NUMBER_COLORS[number]
      size == NUMBER_SIZES[number]
  IN IF bet.betType = "COLOR"
     THEN IF bet.selection = color
          THEN IF (number = 0 /\ bet.selection = "GREEN")
                  \/ (number = 5 /\ bet.selection = "RED")
               THEN Times(bet.amount, DUAL_COLOR_PAYOUT)
               ELSE Times(bet.amount,
                          IF color = "VIOLET" THEN PAYOUTS.COLOR.VIOLET
                          ELSE PAYOUTS.COLOR[color])
          ELSE IF bet.selection = "VIOLET" /\ (number = 0 \/ number = 5)
               THEN Times(bet.amount, PAYOUTS.COLOR.VIOLET)
               ELSE 0
     ELSE IF bet.betType = "SIZE"
     THEN IF bet.selection = size
          THEN Times(bet.amount, PAYOUTS.SIZE[size])
          ELSE 0
     ELSE IF bet.betType = "NUMBER"
     THEN IF ParseInt(bet.selection) = number
          THEN Times(bet.amount, PAYOUTS.NUMBER)
          ELSE 0
     ELSE 0

\* distribution.totalAmount
calculateBetDistribution(rows) ==
  [totalAmount |-> SumSeq([i \in 1..Len(rows) |-> rows[i].amount]),
   totalBets |-> Len(rows)]

\* The ten records, sorted by profit (highest first)
calculateResultAnalysis(rows, totalCollection) ==
  SortByProfit(
    [i \in 1..10 |->
       LET totalPayout == SumSeq([j \in 1..Len(rows) |-> DashboardWinAmount(rows[j], i - 1)])
       IN [number |-> i - 1,
           color |-> NUMBER_COLORS[i - 1],
           size |-> NUMBER_SIZES[i - 1],
           totalPayout |-> totalPayout,
           totalCollection |-> totalCollection,
           profit |-> totalCollection - totalPayout]])

\* getRoundRiskAnalysis(...).resultAnalysis for the bets of the round
getRoundRiskAnalysis(rows) ==
  calculateResultAnalysis(rows, calculateBetDistribution(rows).totalAmount)

(***************************************************************************)
(* State                                                                   *)
(***************************************************************************)
VARIABLES
  rounds,       \* table game_rounds: id -> row
  bets,         \* table bets: id -> row
  wallets,      \* table wallets: userId -> balance
  ledger,       \* table transactions, in insertion order
  procs,        \* the requests and timer callbacks in flight
  isRunning,    \* GameService.isRunning
  intervalId,   \* GameService.intervalId is set
  now,          \* the clock read by new Date()
  nextRoundId,  \* ids are never reused
  nextBetId,
  adminOps,     \* admin requests accepted so far
  activeRooms,     \* RiskDashboardSocket.activeRooms: gameRoundId -> socket ids
  updateIntervals, \* RiskDashboardSocket.updateIntervals: gameRoundId -> interval id
  timers,          \* the setInterval timers of the dashboard that are not cleared
  sockets          \* the admin sockets and their handlers that are awaiting

\* The state of the risk dashboard
dashboard == <<activeRooms, updateIntervals, timers, sockets>>

\* The admin sockets of the model, the round ids their events name (round 2
\* does not exist), and the admin actions one socket has in flight at most.
MaxSockets == 2
Sockets == 1..MaxSockets
DashboardRounds == 1..2
MaxSocketActions == 1
AdminActions == {"force-result", "auto-result", "cancel-round"}

\* constructor(io): both maps are empty and no admin is connected.
RiskDashboardSocket ==
  /\ activeRooms = <<>>
  /\ updateIntervals = <<>>
  /\ timers = {}
  /\ sockets = [s \in Sockets |-> [status |-> "new", subscribing |-> {}, acting |-> {}]]

vars ==
  <<rounds, bets, wallets, ledger, procs, isRunning, intervalId, now,
    nextRoundId, nextBetId, adminOps, dashboard>>

\* The fields of optimalResult / selectedResult that are written to columns
\* the model keeps (selectedResult?.x || 0 for an undefined selectedResult).
ProfitData(c) ==
  [number |-> c.number, totalCollection |-> c.totalCollection,
   totalLiability |-> c.totalLiability, profit |-> c.profit]

\* The columns of a bet row that the settlement loop reads, and those that
\* the refund loop reads.
SettlementRow(row) ==
  [id |-> row.id, userId |-> row.userId, betType |-> row.betType,
   selection |-> row.selection, amount |-> row.amount]

RefundRow(row) ==
  [id |-> row.id, userId |-> row.userId, amount |-> row.amount, result |-> row.result]

\* The local variables of a request that is not running.
Idle ==
  [op |-> "idle", pc |-> "idle", gameRoundId |-> 0, userId |-> 0,
   betType |-> "null", selection |-> "null", amount |-> 0, arg |-> "null",
   winningNumber |-> -1, winningColor |-> "null", winningSize |-> "null",
   profitData |-> ProfitData(Undefined), snapshot |-> <<>>, expiredRounds |-> <<>>,
   period |-> 0]

\* A new request takes the first free slot.
FreeSlot(p) == procs[p] = Idle /\ \A q \in 1..(p - 1) : procs[q] # Idle

InFlight(ops) == Cardinality({p \in Procs : procs[p].op \in ops})

\* Guards that keep the tables within the bounds of the model.
RoomForRound ==
  Cardinality(DOMAIN rounds) + InFlight({"tick", "current", "ensure"}) < MaxRounds

RoomForBet == Cardinality(DOMAIN bets) + InFlight({"place"}) < MaxBets

RoomForAdminOp == adminOps < MaxAdminOps

Extend(f, id, v) == [i \in DOMAIN f \cup {id} |-> IF i = id THEN v ELSE f[i]]

\* prisma.bet.findMany({ where: { gameRoundId } }), with the row ids
BetIdsOfRound(gameRoundId) == {b \in DOMAIN bets : bets[b].gameRoundId = gameRoundId}

BetsOfRound(gameRoundId) ==
  LET ids == SeqOfIds(BetIdsOfRound(gameRoundId))
  IN [i \in 1..Len(ids) |-> bets[ids[i]]]

\* where: { status: { in: ['OPEN', 'PAUSED'] }, resultStatus: 'PENDING' }
IsActive(row) == row.status \in {"OPEN", "PAUSED"} /\ row.resultStatus = "PENDING"

ActiveRounds == {r \in DOMAIN rounds : IsActive(rounds[r])}

Init ==
  /\ rounds = <<>>
  /\ bets = <<>>
  /\ wallets = [u \in Users |-> InitialBalance]
  /\ ledger = <<>>
  /\ procs = [p \in Procs |-> Idle]
  /\ isRunning = FALSE
  /\ RiskDashboardSocket
  /\ intervalId = FALSE
  /\ now = 0
  /\ nextRoundId = 1
  /\ nextBetId = 1
  /\ adminOps = 0

(***************************************************************************)
(* GameService: start, stop, the clock                                     *)
(***************************************************************************)
\* start(): the call of ensureActiveRound is not awaited.
start(p) ==
  /\ ~isRunning
  /\ FreeSlot(p)
  /\ RoomForRound
  /\ isRunning' = TRUE
  /\ intervalId' = TRUE
  /\ procs' = [procs EXCEPT ![p] = [Idle EXCEPT !.op = "ensure", !.pc = "ensure_find"]]
  /\ UNCHANGED <<rounds, bets, wallets, ledger, now, nextRoundId, nextBetId, adminOps, dashboard>>

stop ==
  /\ isRunning \/ intervalId
  /\ intervalId' = FALSE
  /\ isRunning' = FALSE
  /\ UNCHANGED <<rounds, bets, wallets, ledger, procs, now, nextRoundId, nextBetId, adminOps, dashboard>>

\* Time passes: the round's startTime is ROUND_DURATION seconds old or older.
\* The age is read for OPEN / PENDING rounds only.
TimePasses(r) ==
  /\ r \in DOMAIN rounds
  /\ rounds[r].status = "OPEN" /\ rounds[r].resultStatus = "PENDING"
  /\ ~rounds[r].expired
  /\ rounds' = [rounds EXCEPT ![r].expired = TRUE]
  /\ UNCHANGED <<bets, wallets, ledger, procs, isRunning, dashboard, intervalId, now,
                 nextRoundId, nextBetId, adminOps>>

(***************************************************************************)
(* GameService.createNewGameRound, reached from ensureActiveRound,         *)
(* processGameRounds and getCurrentRound                                   *)
(***************************************************************************)
\* The characters of a period after the date prefix, which all the rounds of
\* the model share: String(sequence).padStart(4, '0')
PeriodDigits(sequence) ==
  IF sequence >= 10000
  THEN <<(sequence \div 10000) % 10, (sequence \div 1000) % 10,
         (sequence \div 100) % 10, (sequence \div 10) % 10, sequence % 10>>
  ELSE <<(sequence \div 1000) % 10, (sequence \div 100) % 10,
         (sequence \div 10) % 10, sequence % 10>>

\* The order of orderBy: { period: 'desc' } on the text column
StringBefore(a, b) ==
  \/ \E i \in 1..Len(a) :
        /\ i <= Len(b)
        /\ a[i] < b[i]
        /\ \A j \in 1..(i - 1) : a[j] = b[j]
  \/ /\ Len(a) < Len(b)
     /\ \A j \in 1..Len(a) : a[j] = b[j]

\* generatePeriodNumber: the sequence after the last four characters of the
\* day's last period in the order of the text column
generatePeriodNumber ==
  IF DOMAIN rounds = {} THEN 1
  ELSE LET last == CHOOSE r \in DOMAIN rounds :
                      \A q \in DOMAIN rounds :
                         ~StringBefore(PeriodDigits(rounds[r].period),
                                       PeriodDigits(rounds[q].period))
       IN (rounds[last].period % 10000) + 1

NewRound(period) ==
  [period |-> period, status |-> "OPEN", resultStatus |-> "PENDING",
   expired |-> FALSE, number |-> Null, winningColor |-> "null",
   winningSize |-> "null", resultDeclaredBy |-> "null", declaredAt |-> Null,
   endTime |-> Null, totalCollection |-> Null, totalPayout |-> Null,
   profit |-> Null]

\* ensureActiveRound: findFirst
ensureActiveRound(p) ==
  /\ procs[p].pc = "ensure_find"
  /\ procs' = [procs EXCEPT ![p] =
       IF ActiveRounds # {} THEN Idle ELSE [@ EXCEPT !.pc = "create_generate"]]
  /\ UNCHANGED <<rounds, bets, wallets, ledger, isRunning, dashboard, intervalId, now,
                 nextRoundId, nextBetId, adminOps>>

\* getCurrentRound: findFirst; with an active round it only reads
getCurrentRound(p) ==
  /\ FreeSlot(p)
  /\ RoomForRound
  /\ ActiveRounds = {}
  /\ procs' = [procs EXCEPT ![p] = [Idle EXCEPT !.op = "current", !.pc = "create_generate"]]
  /\ UNCHANGED <<rounds, bets, wallets, ledger, isRunning, dashboard, intervalId, now,
                 nextRoundId, nextBetId, adminOps>>

createGenerate(p) ==
  /\ procs[p].pc = "create_generate"
  /\ procs' = [procs EXCEPT ![p].period = generatePeriodNumber, ![p].pc = "create_check"]
  /\ UNCHANGED <<rounds, bets, wallets, ledger, isRunning, dashboard, intervalId, now,
                 nextRoundId, nextBetId, adminOps>>

\* findUnique({ where: { period } }): an existing round is returned
createCheck(p) ==
  /\ procs[p].pc = "create_check"
  /\ procs' = [procs EXCEPT ![p] =
       IF \E r \in DOMAIN rounds : rounds[r].period = procs[p].period
       THEN Idle ELSE [@ EXCEPT !.pc = "create_insert"]]
  /\ UNCHANGED <<rounds, bets, wallets, ledger, isRunning, dashboard, intervalId, now,
                 nextRoundId, nextBetId, adminOps>>

\* gameRound.create: the unique index game_rounds_period_key rejects a
\* second round of the same period (the error ends the caller)
createInsert(p) ==
  /\ procs[p].pc = "create_insert"
  /\ IF \E r \in DOMAIN rounds : rounds[r].period = procs[p].period
     THEN UNCHANGED <<rounds, nextRoundId>>
     ELSE /\ rounds' = Extend(rounds, nextRoundId, NewRound(procs[p].period))
          /\ nextRoundId' = nextRoundId + 1
  /\ procs' = [procs EXCEPT ![p] = Idle]
  /\ UNCHANGED <<bets, wallets, ledger, isRunning, dashboard, intervalId, now, nextBetId, adminOps>>

(***************************************************************************)
(* GameService.processGameRounds (the timer callback)                      *)
(***************************************************************************)
\* where: { status: 'OPEN', resultStatus: 'PENDING', startTime: { lte: ... } }
ExpiredRounds ==
  {r \in DOMAIN rounds :
     rounds[r].status = "OPEN" /\ rounds[r].resultStatus = "PENDING" /\ rounds[r].expired}

\* The callback fires while the interval is set, whether or not an earlier
\* callback has returned; its first await is the scan for expired rounds.
processGameRounds(p) ==
  /\ intervalId
  /\ FreeSlot(p)
  /\ RoomForRound
  /\ LET expiredRounds == SeqOfIds(ExpiredRounds)
     IN procs' = [procs EXCEPT ![p] =
          IF expiredRounds = <<>>
          THEN [Idle EXCEPT !.op = "tick", !.pc = "tick_active"]
          ELSE [Idle EXCEPT !.op = "tick", !.pc = "auto_calculate",
                            !.gameRoundId = Head(expiredRounds),
                            !.expiredRounds = Tail(expiredRounds)]]
  /\ UNCHANGED <<rounds, bets, wallets, ledger, isRunning, dashboard, intervalId, now,
                 nextRoundId, nextBetId, adminOps>>

\* processGameRounds after the loop: findFirst of an active round
tickActive(p) ==
  /\ procs[p].pc = "tick_active"
  /\ procs' = [procs EXCEPT ![p] =
       IF ActiveRounds # {} THEN Idle
       ELSE [Idle EXCEPT !.op = "tick", !.pc = "create_generate"]]
  /\ UNCHANGED <<rounds, bets, wallets, ledger, isRunning, dashboard, intervalId, now,
                 nextRoundId, nextBetId, adminOps>>

\* Where a request goes when autoCalculateResult or declareResult has
\* returned or thrown: the tick takes its next expired round
\* (autoCompleteRound catches the error), declareResult runs
\* cleanupOldRounds after a settlement, the admin request ends.
AfterResult(proc, settled) ==
  IF proc.op = "tick"
  THEN IF proc.expiredRounds = <<>>
       THEN [Idle EXCEPT !.op = "tick", !.pc = "tick_active"]
       ELSE [Idle EXCEPT !.op = "tick", !.pc = "auto_calculate",
                         !.gameRoundId = Head(proc.expiredRounds),
                         !.expiredRounds = Tail(proc.expiredRounds)]
  ELSE IF proc.op = "declare" /\ settled
  THEN [Idle EXCEPT !.op = "declare", !.pc = "cleanup"]
  ELSE Idle

(***************************************************************************)
(* GameAdminService.autoCalculateResult / saveSystemResult                 *)
(***************************************************************************)
\* POST /api/admin/game/auto-result: no check of the round's state
autoCalculateResultRequest(p, r) ==
  /\ FreeSlot(p)
  /\ RoomForAdminOp
  /\ r \in DOMAIN rounds
  /\ adminOps' = adminOps + 1
  /\ procs' = [procs EXCEPT ![p] =
       [Idle EXCEPT !.op = "auto", !.pc = "auto_calculate", !.gameRoundId = r]]
  /\ UNCHANGED <<rounds, bets, wallets, ledger, isRunning, dashboard, intervalId, now,
                 nextRoundId, nextBetId>>

\* profitEngine.calculateOptimalResult: reads the bets and selects
autoCalculate(p, draws) ==
  /\ procs[p].pc = "auto_calculate"
  /\ \E r0 \in draws, r1 \in draws, r2 \in draws :
       LET optimalResult ==
             calculateOptimalResult(BetsOfRound(procs[p].gameRoundId), r0, r1, r2)
       IN procs' = [procs EXCEPT ![p] =
            IF IsUndefined(optimalResult)
            THEN AfterResult(procs[p], FALSE)
            ELSE [@ EXCEPT !.pc = "auto_store", !.profitData = ProfitData(optimalResult)]]
  /\ UNCHANGED <<rounds, bets, wallets, ledger, isRunning, dashboard, intervalId, now,
                 nextRoundId, nextBetId, adminOps>>

\* The same step of a service constructed with env.MAX_LOSS_PER_ROUND = maxLoss
autoCalculateWith(p, draws, maxLoss) ==
  /\ procs[p].pc = "auto_calculate"
  /\ \E r0 \in draws, r1 \in draws, r2 \in draws :
       LET optimalResult ==
             calculateOptimalResultWith(BetsOfRound(procs[p].gameRoundId), maxLoss, r0, r1, r2)
       IN procs' = [procs EXCEPT ![p] =
            IF IsUndefined(optimalResult)
            THEN AfterResult(procs[p], FALSE)
            ELSE [@ EXCEPT !.pc = "auto_store", !.profitData = ProfitData(optimalResult)]]
  /\ UNCHANGED <<rounds, bets, wallets, ledger, isRunning, dashboard, intervalId, now,
                 nextRoundId, nextBetId, adminOps>>

\* The second calculateAllResultsLiability (kept for calculationData only,
\* which the model leaves out) and profitEngine.storeCalculationData
storeCalculationData(p) ==
  /\ procs[p].pc = "auto_store"
  /\ LET r == procs[p].gameRoundId
         d == procs[p].profitData
     IN rounds' = [rounds EXCEPT ![r].totalCollection = Some(d.totalCollection),
                                 ![r].totalPayout = Some(d.totalLiability),
                                 ![r].profit = Some(d.profit)]
  /\ procs' = [procs EXCEPT ![p].pc = "auto_save"]
  /\ UNCHANGED <<bets, wallets, ledger, isRunning, dashboard, intervalId, now,
                 nextRoundId, nextBetId, adminOps>>

\* saveSystemResult: the update of the round
saveSystemResult(p) ==
  /\ procs[p].pc = "auto_save"
  /\ LET r == procs[p].gameRoundId
         d == procs[p].profitData
         winningNumber == d.number
     IN /\ rounds' = [rounds EXCEPT ![r] =
             [@ EXCEPT !.number = Some(winningNumber),
                       !.winningColor = NUMBER_COLORS[winningNumber],
                       !.winningSize = NUMBER_SIZES[winningNumber],
                       !.status = "RESULT_DECLARED",
                       !.resultStatus = "DECLARED",
                       !.resultDeclaredBy = "SYSTEM",
                       !.declaredAt = Some(now),
                       !.endTime = Some(now),
                       !.totalCollection = Some(d.totalCollection),
                       !.totalPayout = Some(d.totalLiability),
                       !.profit = Some(d.profit)]]
        /\ procs' = [procs EXCEPT ![p].pc = "settle_find",
                                  ![p].profitData = Idle.profitData,
                                  ![p].winningNumber = winningNumber,
                                  ![p].winningColor = NUMBER_COLORS[winningNumber],
                                  ![p].winningSize = NUMBER_SIZES[winningNumber]]
  /\ now' = now + 1
  /\ UNCHANGED <<bets, wallets, ledger, isRunning, dashboard, intervalId,
                 nextRoundId, nextBetId, adminOps>>

(***************************************************************************)
(* GameAdminService.processBetsWithResult                                  *)
(***************************************************************************)
\* bet.findMany({ where: { gameRoundId: roundId } })
settleFind(p) ==
  /\ procs[p].pc = "settle_find"
  /\ LET found == BetsOfRound(procs[p].gameRoundId)
     IN procs' = [procs EXCEPT ![p] =
          IF found = <<>> THEN AfterResult(procs[p], TRUE)
          ELSE [@ EXCEPT !.pc = "settle_bet",
                         !.snapshot = [i \in 1..Len(found) |-> SettlementRow(found[i])]]]
  /\ UNCHANGED <<rounds, bets, wallets, ledger, isRunning, dashboard, intervalId, now,
                 nextRoundId, nextBetId, adminOps>>

\* The row written for the bet, whatever its current result is.
SettledRow(row, outcome) ==
  [row EXCEPT !.result = IF outcome.isWin THEN "WON" ELSE "LOST",
              !.winAmount = Some(IF outcome.isWin THEN outcome.winAmount ELSE 0)]

\* One turn of the loop: the transaction of one bet of the list read before.
settleBet(p) ==
  /\ procs[p].pc = "settle_bet"
  /\ LET bet == Head(procs[p].snapshot)
         outcome == SettleOutcome(bet, procs[p].winningNumber,
                                  procs[p].winningColor, procs[p].winningSize)
     IN /\ bets' = [bets EXCEPT ![bet.id] = SettledRow(@, outcome)]
        /\ IF outcome.isWin
           THEN /\ wallets' = [wallets EXCEPT ![bet.userId] = @ + outcome.winAmount]
                /\ ledger' = Append(ledger,
                      [userId |-> bet.userId, type |-> "BET_WON",
                       amount |-> outcome.winAmount, referenceId |-> bet.id])
           ELSE UNCHANGED <<wallets, ledger>>
  /\ procs' = [procs EXCEPT ![p] =
       IF Tail(procs[p].snapshot) = <<>> THEN AfterResult(procs[p], TRUE)
       ELSE [@ EXCEPT !.snapshot = Tail(@)]]
  /\ UNCHANGED <<rounds, isRunning, dashboard, intervalId, now, nextRoundId, nextBetId, adminOps>>

\* The transaction of one bet rejects (the database is unavailable): nothing
\* of it is written, the error leaves the loop, autoCompleteRound logs it and
\* the tick goes on; an admin request answers with the error.
settleFails(p) ==
  /\ procs[p].pc = "settle_bet"
  /\ procs' = [procs EXCEPT ![p] = AfterResult(procs[p], FALSE)]
  /\ UNCHANGED <<rounds, bets, wallets, ledger, isRunning, dashboard, intervalId, now,
                 nextRoundId, nextBetId, adminOps>>

(***************************************************************************)
(* GameAdminService.cleanupOldRounds                                       *)
(***************************************************************************)
DeclaredRounds == {r \in DOMAIN rounds : rounds[r].resultStatus = "DECLARED"}

\* The `take` oldest declared rounds, orderBy declaredAt asc
RECURSIVE OldestDeclared(_, _)
OldestDeclared(candidates, take) ==
  IF take <= 0 \/ candidates = {} THEN {}
  ELSE LET oldest == CHOOSE r \in candidates :
                        \A q \in candidates :
                           \/ Val(rounds[r].declaredAt) < Val(rounds[q].declaredAt)
                           \/ (Val(rounds[r].declaredAt) = Val(rounds[q].declaredAt) /\ r <= q)
       IN {oldest} \cup OldestDeclared(candidates \ {oldest}, take - 1)

cleanupOldRounds(p) ==
  /\ procs[p].pc = "cleanup"
  /\ LET roundCount == Cardinality(DeclaredRounds)
         roundIds == IF roundCount > KEEP_ROUNDS
                     THEN OldestDeclared(DeclaredRounds, roundCount - KEEP_ROUNDS)
                     ELSE {}
     IN /\ bets' = [b \in {i \in DOMAIN bets : bets[i].gameRoundId \notin roundIds} |-> bets[b]]
        /\ rounds' = [r \in DOMAIN rounds \ roundIds |-> rounds[r]]
  /\ procs' = [procs EXCEPT ![p] = Idle]
  /\ UNCHANGED <<wallets, ledger, isRunning, dashboard, intervalId, now, nextRoundId, nextBetId, adminOps>>

(***************************************************************************)
(* GameAdminService.declareResult                                          *)
(***************************************************************************)
\* findUnique of the round and the two checks of its state
declareResultRequest(p, r, winningOption) ==
  /\ FreeSlot(p)
  /\ RoomForAdminOp
  /\ r \in DOMAIN rounds
  /\ rounds[r].resultStatus # "DECLARED"
  /\ rounds[r].status # "CANCELLED"
  /\ adminOps' = adminOps + 1
  /\ procs' = [procs EXCEPT ![p] =
       [Idle EXCEPT !.op = "declare", !.pc = "declare_validate",
                    !.gameRoundId = r, !.arg = winningOption]]
  /\ UNCHANGED <<rounds, bets, wallets, ledger, isRunning, dashboard, intervalId, now,
                 nextRoundId, nextBetId>>

\* profitEngine.validateAdminResult (reads the bets), then the parsing of
\* the selector; either may throw
declareValidate(p) ==
  /\ procs[p].pc = "declare_validate"
  /\ LET valid == validateAdminResult(BetsOfRound(procs[p].gameRoundId), procs[p].arg)
         parsed == ParseWinningOption(procs[p].arg)
     IN procs' = [procs EXCEPT ![p] =
          IF ~valid \/ ~parsed.valid THEN Idle
          ELSE [@ EXCEPT !.pc = "declare_calculate",
                         !.winningNumber = parsed.winningNumber,
                         !.winningColor = parsed.winningColor,
                         !.winningSize = parsed.winningSize]]
  /\ UNCHANGED <<rounds, bets, wallets, ledger, isRunning, dashboard, intervalId, now,
                 nextRoundId, nextBetId, adminOps>>

\* The second calculateAllResultsLiability; selectedResult is undefined
\* without bets
declareCalculate(p) ==
  /\ procs[p].pc = "declare_calculate"
  /\ LET calculation == calculateAllResultsLiability(BetsOfRound(procs[p].gameRoundId))
         selectedResult == IF calculation.results = <<>> THEN Undefined
                           ELSE FindResult(calculation, procs[p].winningNumber)
     IN procs' = [procs EXCEPT ![p].pc = "declare_update",
                               ![p].profitData = ProfitData(selectedResult)]
  /\ UNCHANGED <<rounds, bets, wallets, ledger, isRunning, dashboard, intervalId, now,
                 nextRoundId, nextBetId, adminOps>>

\* A declaration that goes on to the settlement without writing the result
\* on the round.
declareUpdateAfterSettlement(p) ==
  /\ procs[p].pc = "declare_update"
  /\ now' = now + 1
  /\ procs' = [procs EXCEPT ![p].pc = "settle_find", ![p].profitData = Idle.profitData]
  /\ UNCHANGED <<rounds, bets, wallets, ledger, isRunning, dashboard, intervalId,
                 nextRoundId, nextBetId, adminOps>>

\* gameRound.update with the admin's result (selectedResult?.x || 0)
declareUpdate(p) ==
  /\ procs[p].pc = "declare_update"
  /\ LET r == procs[p].gameRoundId
         d == procs[p].profitData
     IN rounds' = [rounds EXCEPT ![r] =
          [@ EXCEPT !.number = Some(procs[p].winningNumber),
                    !.winningColor = procs[p].winningColor,
                    !.winningSize = procs[p].winningSize,
                    !.status = "RESULT_DECLARED",
                    !.resultStatus = "DECLARED",
                    !.resultDeclaredBy = "ADMIN",
                    !.declaredAt = Some(now),
                    !.endTime = Some(now),
                    !.totalCollection = Some(d.totalCollection),
                    !.totalPayout = Some(d.totalLiability),
                    !.profit = Some(d.profit)]]
  /\ now' = now + 1
  /\ procs' = [procs EXCEPT ![p].pc = "settle_find", ![p].profitData = Idle.profitData]
  /\ UNCHANGED <<bets, wallets, ledger, isRunning, dashboard, intervalId,
                 nextRoundId, nextBetId, adminOps>>

(***************************************************************************)
(* GameAdminService.updateRoundStatus                                      *)
(***************************************************************************)
updateRoundStatusRequest(p, r, status) ==
  /\ FreeSlot(p)
  /\ RoomForAdminOp
  /\ status \in {"OPEN", "PAUSED", "CLOSED"}
  /\ r \in DOMAIN rounds
  /\ rounds[r].status \notin {"CANCELLED", "RESULT_DECLARED"}
  /\ ~(rounds[r].resultStatus = "DECLARED" /\ status = "OPEN")
  /\ adminOps' = adminOps + 1
  /\ procs' = [procs EXCEPT ![p] =
       [Idle EXCEPT !.op = "status", !.pc = "status_update",
                    !.gameRoundId = r, !.arg = status]]
  /\ UNCHANGED <<rounds, bets, wallets, ledger, isRunning, dashboard, intervalId, now,
                 nextRoundId, nextBetId>>

\* gameRound.update({ data: { status } })
updateRoundStatus(p) ==
  /\ procs[p].pc = "status_update"
  /\ rounds' = [rounds EXCEPT ![procs[p].gameRoundId].status = procs[p].arg]
  /\ procs' = [procs EXCEPT ![p] = Idle]
  /\ UNCHANGED <<bets, wallets, ledger, isRunning, dashboard, intervalId, now,
                 nextRoundId, nextBetId, adminOps>>

(***************************************************************************)
(* GameAdminService.cancelRound                                            *)
(***************************************************************************)
\* findUnique of the round with its bets, and the two checks
cancelRoundRequest(p, r) ==
  /\ FreeSlot(p)
  /\ RoomForAdminOp
  /\ r \in DOMAIN rounds
  /\ rounds[r].status # "CANCELLED"
  /\ rounds[r].resultStatus # "DECLARED"
  /\ adminOps' = adminOps + 1
  /\ procs' = [procs EXCEPT ![p] =
       [Idle EXCEPT !.op = "cancel", !.pc = "cancel_transaction",
                    !.gameRoundId = r,
                    !.snapshot = [i \in 1..Len(BetsOfRound(r)) |-> RefundRow(BetsOfRound(r)[i])]]]
  /\ UNCHANGED <<rounds, bets, wallets, ledger, isRunning, dashboard, intervalId, now,
                 nextRoundId, nextBetId>>

\* A refund loop that stops after the first row.
RefundBetsFirstOnly(rows, state) ==
  IF rows = <<>> \/ Head(rows).result # "PENDING" THEN state
  ELSE LET bet == Head(rows)
       IN [wallets |-> [state.wallets EXCEPT ![bet.userId] = @ + bet.amount],
           bets |-> [state.bets EXCEPT ![bet.id] =
                       [@ EXCEPT !.result = "CANCELLED", !.winAmount = Some(0)]],
           ledger |-> Append(state.ledger,
                        [userId |-> bet.userId, type |-> "REFUND",
                         amount |-> bet.amount, referenceId |-> bet.id])]

\* The refunds of the bets that were PENDING in the rows read by the request
RECURSIVE RefundBets(_, _)
RefundBets(rows, state) ==
  IF rows = <<>> THEN state
  ELSE LET bet == Head(rows)
       IN IF bet.result = "PENDING"
          THEN RefundBets(Tail(rows),
                 [wallets |-> [state.wallets EXCEPT ![bet.userId] = @ + bet.amount],
                  bets |-> [state.bets EXCEPT ![bet.id] =
                              [@ EXCEPT !.result = "CANCELLED", !.winAmount = Some(0)]],
                  ledger |-> Append(state.ledger,
                              [userId |-> bet.userId, type |-> "REFUND",
                               amount |-> bet.amount, referenceId |-> bet.id])])
          ELSE RefundBets(Tail(rows), state)

\* prisma.$transaction: the round update and the refund loop
cancelRound(p) ==
  /\ procs[p].pc = "cancel_transaction"
  /\ rounds' = [rounds EXCEPT ![procs[p].gameRoundId] =
                  [@ EXCEPT !.status = "CANCELLED", !.endTime = Some(now)]]
  /\ LET after == RefundBets(procs[p].snapshot,
                             [wallets |-> wallets, bets |-> bets, ledger |-> ledger])
     IN /\ wallets' = after.wallets
        /\ bets' = after.bets
        /\ ledger' = after.ledger
  /\ now' = now + 1
  /\ procs' = [procs EXCEPT ![p] = Idle]
  /\ UNCHANGED <<isRunning, dashboard, intervalId, nextRoundId, nextBetId, adminOps>>

(***************************************************************************)
(* BetService.placeBet                                                     *)
(***************************************************************************)
\* findUnique of the round and the checks of its status
placeBetRequest(p, userId, r, choice, amount) ==
  /\ FreeSlot(p)
  /\ RoomForBet
  /\ r \in DOMAIN rounds
  /\ rounds[r].status \notin {"PAUSED", "CLOSED", "CANCELLED", "RESULT_DECLARED"}
  /\ rounds[r].resultStatus # "DECLARED"
  /\ procs' = [procs EXCEPT ![p] =
       [Idle EXCEPT !.op = "place", !.pc = "place_wallet", !.gameRoundId = r,
                    !.userId = userId, !.betType = choice[1],
                    !.selection = choice[2], !.amount = amount]]
  /\ UNCHANGED <<rounds, bets, wallets, ledger, isRunning, dashboard, intervalId, now,
                 nextRoundId, nextBetId, adminOps>>

\* wallet.findUnique and the balance check
placeBetWallet(p) ==
  /\ procs[p].pc = "place_wallet"
  /\ procs' = [procs EXCEPT ![p] =
       IF wallets[procs[p].userId] < procs[p].amount THEN Idle
       ELSE [@ EXCEPT !.pc = "place_existing"]]
  /\ UNCHANGED <<rounds, bets, wallets, ledger, isRunning, dashboard, intervalId, now,
                 nextRoundId, nextBetId, adminOps>>

\* A duplicate check that debits the wallet before it looks for the bet.
placeBetExistingDebitFirst(p) ==
  /\ procs[p].pc = "place_existing"
  /\ wallets' = [wallets EXCEPT ![procs[p].userId] = @ - procs[p].amount]
  /\ procs' = [procs EXCEPT ![p] =
       IF \E b \in DOMAIN bets : /\ bets[b].userId = procs[p].userId
                                 /\ bets[b].gameRoundId = procs[p].gameRoundId
       THEN Idle
       ELSE [@ EXCEPT !.pc = "place_transaction"]]
  /\ UNCHANGED <<rounds, bets, ledger, isRunning, dashboard, intervalId, now,
                 nextRoundId, nextBetId, adminOps>>

\* bet.findFirst({ where: { userId, gameRoundId } })
placeBetExisting(p) ==
  /\ procs[p].pc = "place_existing"
  /\ procs' = [procs EXCEPT ![p] =
       IF \E b \in DOMAIN bets : /\ bets[b].userId = procs[p].userId
                                 /\ bets[b].gameRoundId = procs[p].gameRoundId
       THEN Idle
       ELSE [@ EXCEPT !.pc = "place_transaction"]]
  /\ UNCHANGED <<rounds, bets, wallets, ledger, isRunning, dashboard, intervalId, now,
                 nextRoundId, nextBetId, adminOps>>

\* prisma.$transaction: wallet decrement, bet.create, transaction.create
placeBet(p) ==
  /\ procs[p].pc = "place_transaction"
  /\ wallets' = [wallets EXCEPT ![procs[p].userId] = @ - procs[p].amount]
  /\ bets' = Extend(bets, nextBetId,
       [id |-> nextBetId, userId |-> procs[p].userId,
        gameRoundId |-> procs[p].gameRoundId, betType |-> procs[p].betType,
        selection |-> ToUpperCase(procs[p].selection), amount |-> procs[p].amount,
        result |-> "PENDING", winAmount |-> Null])
  /\ nextBetId' = nextBetId + 1
  /\ ledger' = Append(ledger,
       [userId |-> procs[p].userId, type |-> "BET_PLACED",
        amount |-> procs[p].amount, referenceId |-> nextBetId])
  /\ procs' = [procs EXCEPT ![p] = Idle]
  /\ UNCHANGED <<rounds, isRunning, dashboard, intervalId, now, nextRoundId, adminOps>>

(***************************************************************************)
(* WalletService.createWithdrawal (the user has bank details).  The        *)
(* withdrawal row and its transaction record are the WITHDRAWAL record of  *)
(* the ledger; it stays pending (approval is the admin's).                 *)
(***************************************************************************)
\* wallet.findUnique and the balance check
createWithdrawalRequest(p, userId, amount) ==
  /\ FreeSlot(p)
  /\ wallets[userId] >= amount
  /\ procs' = [procs EXCEPT ![p] =
       [Idle EXCEPT !.op = "withdraw", !.pc = "withdraw_pending",
                    !.userId = userId, !.amount = amount]]
  /\ UNCHANGED <<rounds, bets, wallets, ledger, isRunning, dashboard, intervalId, now,
                 nextRoundId, nextBetId, adminOps>>

\* withdrawal.findFirst({ status in PENDING, PROCESSING })
withdrawPending(p) ==
  /\ procs[p].pc = "withdraw_pending"
  /\ procs' = [procs EXCEPT ![p] =
       IF \E i \in DOMAIN ledger : /\ ledger[i].type = "WITHDRAWAL"
                                   /\ ledger[i].userId = procs[p].userId
       THEN Idle
       ELSE [@ EXCEPT !.pc = "withdraw_create"]]
  /\ UNCHANGED <<rounds, bets, wallets, ledger, isRunning, dashboard, intervalId, now,
                 nextRoundId, nextBetId, adminOps>>

\* withdrawal.create and transaction.create
withdrawCreate(p) ==
  /\ procs[p].pc = "withdraw_create"
  /\ ledger' = Append(ledger,
       [userId |-> procs[p].userId, type |-> "WITHDRAWAL",
        amount |-> procs[p].amount, referenceId |-> 0])
  /\ procs' = [procs EXCEPT ![p].pc = "withdraw_debit"]
  /\ UNCHANGED <<rounds, bets, wallets, isRunning, dashboard, intervalId, now,
                 nextRoundId, nextBetId, adminOps>>

\* wallet.update({ balance: { decrement } })
withdrawDebit(p) ==
  /\ procs[p].pc = "withdraw_debit"
  /\ wallets' = [wallets EXCEPT ![procs[p].userId] = @ - procs[p].amount]
  /\ procs' = [procs EXCEPT ![p] = Idle]
  /\ UNCHANGED <<rounds, bets, ledger, isRunning, dashboard, intervalId, now,
                 nextRoundId, nextBetId, adminOps>>

(***************************************************************************)
(* The four operations with their first check as a step of its own: the    *)
(* call arrives, then the round is read and the checks either reject the   *)
(* call (the request ends) or let it continue as above.                    *)
(***************************************************************************)
placeBetCall(p, userId, r, choice, amount) ==
  /\ FreeSlot(p)
  /\ RoomForBet
  /\ procs' = [procs EXCEPT ![p] =
       [Idle EXCEPT !.op = "place", !.pc = "place_round", !.gameRoundId = r,
                    !.userId = userId, !.betType = choice[1],
                    !.selection = choice[2], !.amount = amount]]
  /\ UNCHANGED <<rounds, bets, wallets, ledger, isRunning, dashboard, intervalId, now,
                 nextRoundId, nextBetId, adminOps>>

\* gameRound.findUnique and the checks of status and resultStatus
placeBetRound(p) ==
  /\ procs[p].pc = "place_round"
  /\ LET r == procs[p].gameRoundId
     IN procs' = [procs EXCEPT ![p] =
          IF /\ r \in DOMAIN rounds
             /\ rounds[r].status \notin {"PAUSED", "CLOSED", "CANCELLED", "RESULT_DECLARED"}
             /\ rounds[r].resultStatus # "DECLARED"
          THEN [@ EXCEPT !.pc = "place_wallet"]
          ELSE Idle]
  /\ UNCHANGED <<rounds, bets, wallets, ledger, isRunning, dashboard, intervalId, now,
                 nextRoundId, nextBetId, adminOps>>

declareResultCall(p, r, winningOption) ==
  /\ FreeSlot(p)
  /\ RoomForAdminOp
  /\ adminOps' = adminOps + 1
  /\ procs' = [procs EXCEPT ![p] =
       [Idle EXCEPT !.op = "declare", !.pc = "declare_find",
                    !.gameRoundId = r, !.arg = winningOption]]
  /\ UNCHANGED <<rounds, bets, wallets, ledger, isRunning, dashboard, intervalId, now,
                 nextRoundId, nextBetId>>

\* gameRound.findUnique and the checks of resultStatus and status
declareFind(p) ==
  /\ procs[p].pc = "declare_find"
  /\ LET r == procs[p].gameRoundId
     IN procs' = [procs EXCEPT ![p] =
          IF /\ r \in DOMAIN rounds
             /\ rounds[r].resultStatus # "DECLARED"
             /\ rounds[r].status # "CANCELLED"
          THEN [@ EXCEPT !.pc = "declare_validate"]
          ELSE Idle]
  /\ UNCHANGED <<rounds, bets, wallets, ledger, isRunning, dashboard, intervalId, now,
                 nextRoundId, nextBetId, adminOps>>

cancelRoundCall(p, r) ==
  /\ FreeSlot(p)
  /\ RoomForAdminOp
  /\ adminOps' = adminOps + 1
  /\ procs' = [procs EXCEPT ![p] =
       [Idle EXCEPT !.op = "cancel", !.pc = "cancel_find", !.gameRoundId = r]]
  /\ UNCHANGED <<rounds, bets, wallets, ledger, isRunning, dashboard, intervalId, now,
                 nextRoundId, nextBetId>>

\* gameRound.findUnique with the bets, and the checks of status and resultStatus
cancelFind(p) ==
  /\ procs[p].pc = "cancel_find"
  /\ LET r == procs[p].gameRoundId
     IN procs' = [procs EXCEPT ![p] =
          IF /\ r \in DOMAIN rounds
             /\ rounds[r].status # "CANCELLED"
             /\ rounds[r].resultStatus # "DECLARED"
          THEN [@ EXCEPT !.pc = "cancel_transaction",
                         !.snapshot = [i \in 1..Len(BetsOfRound(r)) |->
                                         RefundRow(BetsOfRound(r)[i])]]
          ELSE Idle]
  /\ UNCHANGED <<rounds, bets, wallets, ledger, isRunning, dashboard, intervalId, now,
                 nextRoundId, nextBetId, adminOps>>

updateRoundStatusCall(p, r, status) ==
  /\ FreeSlot(p)
  /\ RoomForAdminOp
  /\ adminOps' = adminOps + 1
  /\ procs' = [procs EXCEPT ![p] =
       [Idle EXCEPT !.op = "status", !.pc = "status_find",
                    !.gameRoundId = r, !.arg = status]]
  /\ UNCHANGED <<rounds, bets, wallets, ledger, isRunning, dashboard, intervalId, now,
                 nextRoundId, nextBetId>>

\* validStatuses.includes(status), gameRound.findUnique and the checks
updateRoundStatusFind(p) ==
  /\ procs[p].pc = "status_find"
  /\ LET r == procs[p].gameRoundId
         status == procs[p].arg
     IN procs' = [procs EXCEPT ![p] =
          IF /\ status \in {"OPEN", "PAUSED", "CLOSED"}
             /\ r \in DOMAIN rounds
             /\ rounds[r].status \notin {"CANCELLED", "RESULT_DECLARED"}
             /\ ~(rounds[r].resultStatus = "DECLARED" /\ status = "OPEN")
          THEN [@ EXCEPT !.pc = "status_update"]
          ELSE Idle]
  /\ UNCHANGED <<rounds, bets, wallets, ledger, isRunning, dashboard, intervalId, now,
                 nextRoundId, nextBetId, adminOps>>

(***************************************************************************)
(* The system                                                              *)
(***************************************************************************)
RoundIds == 1..MaxRounds

Next ==
  \/ stop
  \/ \E r \in RoundIds : TimePasses(r)
  \/ \E p \in Procs :
       \/ start(p)
       \/ ensureActiveRound(p)
       \/ getCurrentRound(p)
       \/ createGenerate(p)
       \/ createCheck(p)
       \/ createInsert(p)
       \/ processGameRounds(p)
       \/ tickActive(p)
       \/ autoCalculate(p, RandomDraws)
       \/ storeCalculationData(p)
       \/ saveSystemResult(p)
       \/ settleFind(p)
       \/ settleBet(p)
       \/ cleanupOldRounds(p)
       \/ declareValidate(p)
       \/ declareCalculate(p)
       \/ declareUpdate(p)
       \/ updateRoundStatus(p)
       \/ cancelRound(p)
       \/ placeBetWallet(p)
       \/ placeBetExisting(p)
       \/ placeBet(p)
       \/ \E r \in RoundIds :
            \/ autoCalculateResultRequest(p, r)
            \/ cancelRoundRequest(p, r)
            \/ \E winningOption \in AdminOptions : declareResultRequest(p, r, winningOption)
            \/ \E status \in StatusTargets : updateRoundStatusRequest(p, r, status)
            \/ \E userId \in Users, choice \in BetChoices, amount \in Stakes :
                 placeBetRequest(p, userId, r, choice, amount)

Spec == Init /\ [][Next]_vars

(***************************************************************************)
(* Settlement of one round, requests one after the other: a round that is  *)
(* open with up to MaxBets bets of any kind, each by its own user, is      *)
(* declared by the admin or by the system.                                 *)
(***************************************************************************)
SettleStakes == {10000, 80000}

SettleBalance == 100000

SettleChoices ==
  {<<"NUMBER", DigitStrings[i]>> : i \in 1..10}
    \cup {<<"COLOR", c>> : c \in {"GREEN", "RED", "VIOLET"}}
    \cup {<<"SIZE", z>> : z \in {"BIG", "SMALL"}}

SettleOptions == {DigitStrings[i] : i \in 1..10}
                   \cup {"GREEN", "red", "VIOLET", "BIG", "small", "PURPLE"}

SettleDraws == {0, 35, 75, 95}

\* The bet rows, wallets and ledger that placeBet leaves for the given bets.
PlacedBets(placed) ==
  [i \in 1..Len(placed) |->
     [id |-> i, userId |-> i, gameRoundId |-> 1, betType |-> placed[i][1][1],
      selection |-> placed[i][1][2], amount |-> placed[i][2],
      result |-> "PENDING", winAmount |-> Null]]

InitSettle ==
  \E n \in 0..MaxBets :
    \E placed \in [1..n -> SettleChoices \X SettleStakes] :
      /\ rounds = <<NewRound(1)>>
      /\ bets = PlacedBets(placed)
      /\ wallets = [u \in 1..MaxBets |->
                      IF u <= n THEN SettleBalance - placed[u][2] ELSE SettleBalance]
      /\ ledger = [i \in 1..n |->
                     [userId |-> i, type |-> "BET_PLACED",
                      amount |-> placed[i][2], referenceId |-> i]]
      /\ procs = [p \in Procs |-> Idle]
      /\ isRunning = FALSE
      /\ RiskDashboardSocket
      /\ intervalId = FALSE
      /\ now = 1
      /\ nextRoundId = 2
      /\ nextBetId = n + 1
      /\ adminOps = 0

NextSettle ==
  \E p \in {1} :
    \/ \E winningOption \in SettleOptions : declareResultRequest(p, 1, winningOption)
    \/ declareValidate(p)
    \/ declareCalculate(p)
    \/ declareUpdate(p)
    \/ autoCalculateResultRequest(p, 1)
    \/ autoCalculate(p, SettleDraws)
    \/ storeCalculationData(p)
    \/ saveSystemResult(p)
    \/ settleFind(p)
    \/ settleBet(p)
    \/ cleanupOldRounds(p)

SpecSettle == InitSettle /\ [][NextSettle]_vars

(***************************************************************************)
(* Cancellation of one round: a round whose betting window has expired     *)
(* holds up to MaxCancelBets bets, each by its own user; the scheduler is  *)
(* running, and the admin cancels the round while the tick declares it.    *)
(***************************************************************************)
MaxCancelBets == 3

CancelStakes == {2000, 5000, 7500}

CancelChoices == {<<"SIZE", "BIG">>, <<"COLOR", "RED">>}

InitCancel ==
  \E n \in 0..MaxCancelBets :
    \E placed \in [1..n -> CancelChoices \X CancelStakes] :
      /\ rounds = <<[NewRound(1) EXCEPT !.expired = TRUE]>>
      /\ bets = PlacedBets(placed)
      /\ wallets = [u \in 1..MaxCancelBets |->
                      IF u <= n THEN SettleBalance - placed[u][2] ELSE SettleBalance]
      /\ ledger = [i \in 1..n |->
                     [userId |-> i, type |-> "BET_PLACED",
                      amount |-> placed[i][2], referenceId |-> i]]
      /\ procs = [p \in Procs |-> Idle]
      /\ isRunning = TRUE
      /\ RiskDashboardSocket
      /\ intervalId = TRUE
      /\ now = 1
      /\ nextRoundId = 2
      /\ nextBetId = n + 1
      /\ adminOps = 0

NextCancel ==
  \E p \in Procs :
    \/ cancelRoundRequest(p, 1)
    \/ cancelRound(p)
    \/ processGameRounds(p)
    \/ tickActive(p)
    \/ createGenerate(p)
    \/ createCheck(p)
    \/ createInsert(p)
    \/ autoCalculate(p, RandomDraws)
    \/ storeCalculationData(p)
    \/ saveSystemResult(p)
    \/ settleFind(p)
    \/ settleBet(p)

SpecCancel == InitCancel /\ [][NextCancel]_vars

(***************************************************************************)
(* Settlement that can be interrupted: the first round has expired with    *)
(* its bets placed, the tick declares and settles it, a transaction of the *)
(* settlement loop may reject, and the admin may ask for the system result *)
(* of the round afterwards.                                                *)
(***************************************************************************)
NextResume ==
  \E p \in Procs :
    \/ processGameRounds(p)
    \/ tickActive(p)
    \/ createGenerate(p)
    \/ createCheck(p)
    \/ createInsert(p)
    \/ autoCalculateResultRequest(p, 1)
    \/ autoCalculate(p, RandomDraws)
    \/ storeCalculationData(p)
    \/ saveSystemResult(p)
    \/ settleFind(p)
    \/ settleBet(p)
    \/ settleFails(p)

SpecResume == InitCancel /\ [][NextResume]_vars

(***************************************************************************)
(* The scheduler at work: start() has returned, the first round is open,   *)
(* and the timer callback fires for ever.  Users place bets and the admin  *)
(* changes the status of the round.  The random draws are those of the     *)
(* branch that cannot fail (random >= 0.9), so that no behaviour depends   *)
(* on a run of unlucky draws.                                              *)
(***************************************************************************)
LiveDraws == {95}

\* The admin pauses the round or reopens it.
LiveTargets == {"OPEN", "PAUSED"}

InitLive ==
  /\ rounds = <<NewRound(1)>>
  /\ bets = <<>>
  /\ wallets = [u \in Users |-> InitialBalance]
  /\ ledger = <<>>
  /\ procs = [p \in Procs |-> Idle]
  /\ isRunning = TRUE
  /\ RiskDashboardSocket
  /\ intervalId = TRUE
  /\ now = 1
  /\ nextRoundId = 2
  /\ nextBetId = 1
  /\ adminOps = 0

\* The steps of the timer callback of process p whose turn the event loop
\* is bound to give
TickStep(p) ==
  \/ processGameRounds(p)
  \/ tickActive(p)
  \/ createGenerate(p)
  \/ createCheck(p)
  \/ createInsert(p)
  \/ storeCalculationData(p)
  \/ saveSystemResult(p)
  \/ settleFind(p)
  \/ settleBet(p)

\* The steps that continue a request already accepted
RequestStep(p) ==
  \/ updateRoundStatus(p)
  \/ placeBetWallet(p)
  \/ placeBetExisting(p)
  \/ placeBet(p)

NextLive ==
  \/ TimePasses(1)
  \/ \E p \in Procs :
       \/ TickStep(p)
       \/ autoCalculate(p, LiveDraws)
       \/ RequestStep(p)
       \/ \E status \in LiveTargets : updateRoundStatusRequest(p, 1, status)
       \/ \E userId \in Users, choice \in BetChoices, amount \in Stakes :
            placeBetRequest(p, userId, 1, choice, amount)

\* The timer fires every second, the event loop runs every continuation,
\* and time passes; nothing obliges a user or the admin to send a request.
\* autoCalculate is enabled exactly when its process is at "auto_calculate"
\* and always leaves it, so weak fairness of autoCalculate is the last
\* conjunct: no process stays at "auto_calculate" for ever.
FairLive ==
  /\ WF_vars(TimePasses(1))
  /\ \A p \in Procs : WF_vars(TickStep(p)) /\ WF_vars(RequestStep(p))
  /\ \A p \in Procs : []<>(procs[p].pc # "auto_calculate")

SpecLive == InitLive /\ [][NextLive]_vars /\ FairLive

(***************************************************************************)
(* Timer callbacks alone: the service runs, the table of rounds is empty   *)
(* (the lookup of ensureActiveRound was rejected and its catch logged the  *)
(* error), and the callback fires every second whatever the earlier        *)
(* callbacks are doing.  Users bet on the rounds the callbacks create.     *)
(***************************************************************************)
InitTicks ==
  /\ rounds = <<>>
  /\ bets = <<>>
  /\ wallets = [u \in Users |-> InitialBalance]
  /\ ledger = <<>>
  /\ procs = [p \in Procs |-> Idle]
  /\ isRunning = TRUE
  /\ RiskDashboardSocket
  /\ intervalId = TRUE
  /\ now = 0
  /\ nextRoundId = 1
  /\ nextBetId = 1
  /\ adminOps = 0

NextTicks ==
  \/ \E r \in RoundIds : TimePasses(r)
  \/ \E p \in Procs :
       \/ processGameRounds(p)
       \/ tickActive(p)
       \/ createGenerate(p)
       \/ createCheck(p)
       \/ createInsert(p)
       \/ autoCalculate(p, RandomDraws)
       \/ storeCalculationData(p)
       \/ saveSystemResult(p)
       \/ settleFind(p)
       \/ settleBet(p)
       \/ placeBetWallet(p)
       \/ placeBetExisting(p)
       \/ placeBet(p)
       \/ \E r \in RoundIds, userId \in Users, choice \in BetChoices, amount \in Stakes :
            placeBetRequest(p, userId, r, choice, amount)

SpecTicks == InitTicks /\ [][NextTicks]_vars

(***************************************************************************)
(* Retention: the table holds KEEP_ROUNDS declared rounds, the oldest with *)
(* a settled bet, and one more round whose betting window has expired,     *)
(* with or without a bet.  The admin declares that round or asks for its   *)
(* system result.                                                          *)
(***************************************************************************)
\* The row of a round declared by the system at time t, without bets
DeclaredRound(period, t) ==
  [NewRound(period) EXCEPT !.expired = TRUE,
                           !.number = Some(0),
                           !.winningColor = NUMBER_COLORS[0],
                           !.winningSize = NUMBER_SIZES[0],
                           !.status = "RESULT_DECLARED",
                           !.resultStatus = "DECLARED",
                           !.resultDeclaredBy = "SYSTEM",
                           !.declaredAt = Some(t),
                           !.endTime = Some(t),
                           !.totalCollection = Some(0),
                           !.totalPayout = Some(0),
                           !.profit = Some(0)]

LastRound == KEEP_ROUNDS + 1

InitRetention ==
  \E n \in 0..1 :
    \E placed \in [1..n -> BetChoices \X Stakes] :
      /\ rounds = [i \in 1..LastRound |->
                     IF i <= KEEP_ROUNDS THEN DeclaredRound(i, i)
                     ELSE [NewRound(i) EXCEPT !.expired = TRUE]]
      /\ bets = [i \in 1..(n + 1) |->
                   IF i = 1
                   THEN [id |-> 1, userId |-> 1, gameRoundId |-> 1,
                         betType |-> "NUMBER", selection |-> "9", amount |-> 1000,
                         result |-> "LOST", winAmount |-> Some(0)]
                   ELSE [id |-> i, userId |-> i, gameRoundId |-> LastRound,
                         betType |-> placed[1][1][1], selection |-> placed[1][1][2],
                         amount |-> placed[1][2],
                         result |-> "PENDING", winAmount |-> Null]]
      /\ wallets = [u \in 1..2 |->
                      IF u = 1 THEN InitialBalance - 1000
                      ELSE IF n = 1 THEN InitialBalance - placed[1][2]
                      ELSE InitialBalance]
      /\ ledger = [i \in 1..(n + 1) |->
                     [userId |-> i, type |-> "BET_PLACED",
                      amount |-> IF i = 1 THEN 1000 ELSE placed[1][2],
                      referenceId |-> i]]
      /\ procs = [p \in Procs |-> Idle]
      /\ isRunning = FALSE
      /\ RiskDashboardSocket
      /\ intervalId = FALSE
      /\ now = LastRound
      /\ nextRoundId = LastRound + 1
      /\ nextBetId = n + 2
      /\ adminOps = 0

NextRetention ==
  \E p \in {1} :
    \/ \E winningOption \in SettleOptions :
         declareResultRequest(p, LastRound, winningOption)
    \/ declareValidate(p)
    \/ declareCalculate(p)
    \/ declareUpdate(p)
    \/ autoCalculateResultRequest(p, LastRound)
    \/ autoCalculate(p, SettleDraws)
    \/ storeCalculationData(p)
    \/ saveSystemResult(p)
    \/ settleFind(p)
    \/ settleBet(p)
    \/ cleanupOldRounds(p)

SpecRetention == InitRetention /\ [][NextRetention]_vars

(***************************************************************************)
(* Calls that may be rejected: one round in any of its states, with or     *)
(* without a bet of the user, and calls of the four operations with valid  *)
(* and invalid arguments.                                                  *)
(***************************************************************************)
RejectStakes == {1000, 5000}

\* The rows a round has in each of its states
RoundStates ==
  {NewRound(1),
   [NewRound(1) EXCEPT !.status = "PAUSED"],
   [NewRound(1) EXCEPT !.status = "CLOSED"],
   [NewRound(1) EXCEPT !.status = "CANCELLED", !.endTime = Some(1)],
   DeclaredRound(1, 1)}

InitReject ==
  \E row \in RoundStates, n \in 0..1 :
    /\ n = 1 => row.status \in {"OPEN", "PAUSED", "CLOSED"}
    /\ rounds = <<row>>
    /\ bets = PlacedBets([i \in 1..n |-> <<<<"SIZE", "BIG">>, 1000>>])
    /\ wallets = [u \in Users |-> IF n = 1 THEN InitialBalance - 1000 ELSE InitialBalance]
    /\ ledger = [i \in 1..n |->
                   [userId |-> i, type |-> "BET_PLACED", amount |-> 1000, referenceId |-> i]]
    /\ procs = [p \in Procs |-> Idle]
    /\ isRunning = FALSE
    /\ RiskDashboardSocket
    /\ intervalId = FALSE
    /\ now = 2
    /\ nextRoundId = 2
    /\ nextBetId = n + 1
    /\ adminOps = 0

NextReject ==
  \E p \in Procs :
    \/ \E userId \in Users, r \in RoundIds, choice \in BetChoices, amount \in RejectStakes :
         placeBetCall(p, userId, r, choice, amount)
    \/ placeBetRound(p)
    \/ placeBetWallet(p)
    \/ placeBetExisting(p)
    \/ placeBet(p)
    \/ \E r \in RoundIds, winningOption \in AdminOptions : declareResultCall(p, r, winningOption)
    \/ declareFind(p)
    \/ declareValidate(p)
    \/ declareCalculate(p)
    \/ declareUpdate(p)
    \/ settleFind(p)
    \/ settleBet(p)
    \/ cleanupOldRounds(p)
    \/ \E r \in RoundIds : cancelRoundCall(p, r)
    \/ cancelFind(p)
    \/ cancelRound(p)
    \/ \E r \in RoundIds, status \in StatusTargets : updateRoundStatusCall(p, r, status)
    \/ updateRoundStatusFind(p)
    \/ updateRoundStatus(p)

SpecReject == InitReject /\ [][NextReject]_vars

(***************************************************************************)
(* Debits of one wallet: a round is open, and the user places a bet (one   *)
(* placement at a time) and asks for a withdrawal at the same time.        *)
(***************************************************************************)
DebitAmounts == {1000, 1500}

\* A placement sent while no other placement is in progress
placeBetAlone(p, userId, r, choice, amount) ==
  /\ InFlight({"place"}) = 0
  /\ placeBetRequest(p, userId, r, choice, amount)

NextDebit ==
  \E p \in Procs :
    \/ \E userId \in Users, choice \in BetChoices, amount \in DebitAmounts :
         placeBetAlone(p, userId, 1, choice, amount)
    \/ placeBetWallet(p)
    \/ placeBetExisting(p)
    \/ placeBet(p)
    \/ \E userId \in Users, amount \in DebitAmounts :
         createWithdrawalRequest(p, userId, amount)
    \/ withdrawPending(p)
    \/ withdrawCreate(p)
    \/ withdrawDebit(p)

SpecDebit == InitLive /\ [][NextDebit]_vars

(***************************************************************************)
(* System declaration by a service whose environment sets                  *)
(* MAX_LOSS_PER_ROUND to -500.00 (a round must earn 500.00 to be           *)
(* acceptable).  With the default 0, and with any limit that allows a      *)
(* loss, some digit always has a positive profit (the multipliers pay back *)
(* less than the stakes on average over the ten digits), so only such an   *)
(* environment takes selectWeightedResult into its last-resort branch.     *)
(***************************************************************************)
ConfiguredMaxLoss == -50000

NextSelect ==
  \E p \in {1} :
    \/ autoCalculateResultRequest(p, 1)
    \/ autoCalculateWith(p, SettleDraws, ConfiguredMaxLoss)
    \/ storeCalculationData(p)
    \/ saveSystemResult(p)
    \/ settleFind(p)
    \/ settleBet(p)

SpecSelect == InitSettle /\ [][NextSelect]_vars

(***************************************************************************)
(* Cancellation that can fail: a call of the interactive transaction of    *)
(* cancelRound rejects (the database is unavailable), prisma rolls the     *)
(* transaction back, and the admin sends the request again once the failed *)
(* one is answered: one cancelRound request is in flight at a time.        *)
(***************************************************************************)
MaxCancelFailures == 2

\* A failure that leaves the round update and the first refund written.
cancelFailsPartway(p) ==
  /\ procs[p].pc = "cancel_transaction"
  /\ now <= MaxCancelFailures
  /\ now' = now + 1
  /\ adminOps' = adminOps - 1
  /\ rounds' = [rounds EXCEPT ![procs[p].gameRoundId] =
                  [@ EXCEPT !.status = "CANCELLED", !.endTime = Some(now)]]
  /\ LET after == RefundBetsFirstOnly(procs[p].snapshot,
                     [wallets |-> wallets, bets |-> bets, ledger |-> ledger])
     IN /\ wallets' = after.wallets
        /\ bets' = after.bets
        /\ ledger' = after.ledger
  /\ procs' = [procs EXCEPT ![p] = Idle]
  /\ UNCHANGED <<isRunning, dashboard, intervalId, nextRoundId, nextBetId>>

\* prisma.$transaction rejects at any of its calls: nothing of it is
\* written and the request answers with the error.  The failed request
\* gives its place back to the next one.
cancelFails(p) ==
  /\ procs[p].pc = "cancel_transaction"
  /\ now <= MaxCancelFailures
  /\ now' = now + 1
  /\ adminOps' = adminOps - 1
  /\ procs' = [procs EXCEPT ![p] = Idle]
  /\ UNCHANGED <<rounds, bets, wallets, ledger, isRunning, dashboard, intervalId,
                 nextRoundId, nextBetId>>

NextCancelRetry ==
  \E p \in Procs :
    \/ InFlight({"cancel"}) = 0 /\ cancelRoundRequest(p, 1)
    \/ cancelRound(p)
    \/ cancelFails(p)

SpecCancelRetry == InitCancel /\ [][NextCancelRetry]_vars

(***************************************************************************)
(* The end of a busy day: the rounds of the day that are still stored end  *)
(* with a sequence of LastSequences, declared; clients ask for the current *)
(* round and the admin may pause, reopen, close or declare the open round. *)
(***************************************************************************)
MaxDayRounds == 3

LastSequences == 9996..9999

InitPeriods ==
  \E last \in LastSequences :
    /\ rounds = <<DeclaredRound(last, 0)>>
    /\ bets = <<>>
    /\ wallets = [u \in Users |-> InitialBalance]
    /\ ledger = <<>>
    /\ procs = [p \in Procs |-> Idle]
    /\ isRunning = FALSE
    /\ RiskDashboardSocket
    /\ intervalId = FALSE
    /\ now = 1
    /\ nextRoundId = 2
    /\ nextBetId = 1
    /\ adminOps = 0

\* getCurrentRound without an active round, one call at a time, for up to
\* MaxDayRounds rounds
getCurrentRoundOfDay(p) ==
  /\ FreeSlot(p)
  /\ InFlight({"current"}) = 0
  /\ Cardinality(DOMAIN rounds) <= MaxDayRounds
  /\ ActiveRounds = {}
  /\ procs' = [procs EXCEPT ![p] = [Idle EXCEPT !.op = "current", !.pc = "create_generate"]]
  /\ UNCHANGED <<rounds, bets, wallets, ledger, isRunning, dashboard, intervalId, now,
                 nextRoundId, nextBetId, adminOps>>

NextPeriods ==
  \E p \in Procs :
    \/ getCurrentRoundOfDay(p)
    \/ createGenerate(p)
    \/ createCheck(p)
    \/ createInsert(p)
    \/ \E r \in 1..(MaxDayRounds + 1), status \in LiveTargets \cup {"CLOSED"} :
         updateRoundStatusRequest(p, r, status)
    \/ updateRoundStatus(p)
    \/ \E r \in 1..(MaxDayRounds + 1), winningOption \in AdminOptions :
         declareResultRequest(p, r, winningOption)
    \/ declareValidate(p)
    \/ declareCalculate(p)
    \/ declareUpdate(p)
    \/ settleFind(p)
    \/ cleanupOldRounds(p)

SpecPeriods == InitPeriods /\ [][NextPeriods]_vars

(***************************************************************************)
(* A round without bets: the scheduler runs, nobody bets on the first      *)
(* round, and the tick or the admin's auto-result request declares it.     *)
(* Math.random() takes one value of every tenth of [0, 1).                 *)
(***************************************************************************)
AllDraws == {5, 15, 25, 35, 45, 55, 65, 75, 85, 95}

NextNoBets ==
  \/ TimePasses(1)
  \/ \E p \in Procs :
       \/ processGameRounds(p)
       \/ tickActive(p)
       \/ createGenerate(p)
       \/ createCheck(p)
       \/ createInsert(p)
       \/ autoCalculateResultRequest(p, 1)
       \/ autoCalculate(p, AllDraws)
       \/ storeCalculationData(p)
       \/ saveSystemResult(p)
       \/ settleFind(p)

SpecNoBets == InitLive /\ [][NextNoBets]_vars

(***************************************************************************)
(* RiskDashboardSocket: subscriptions and the periodic update timers.      *)
(* The rows of the tables stay as they are; of the admin services the      *)
(* handlers await, only the outcome (resolved or thrown) is drawn.         *)
(***************************************************************************)
\* setInterval(...) returns a handle that no running timer has.
NewIntervalId ==
  CHOOSE i \in 1..(Cardinality(timers) + 1) : \A t \in timers : t.id # i

\* startRealtimeUpdates(gameRoundId)
startRealtimeUpdates(gameRoundId) ==
  IF gameRoundId \in DOMAIN updateIntervals
  THEN UNCHANGED <<updateIntervals, timers>>
  ELSE /\ timers' = timers \cup {[id |-> NewIntervalId, gameRoundId |-> gameRoundId]}
       /\ updateIntervals' = Extend(updateIntervals, gameRoundId, NewIntervalId)

\* stopRealtimeUpdates(gameRoundId)
stopRealtimeUpdates(gameRoundId) ==
  IF gameRoundId \in DOMAIN updateIntervals
  THEN /\ timers' = {t \in timers : t.id # updateIntervals[gameRoundId]}
       /\ updateIntervals' = [r \in DOMAIN updateIntervals \ {gameRoundId} |-> updateIntervals[r]]
  ELSE UNCHANGED <<updateIntervals, timers>>

\* The 'connection' event of the namespace
connection(s) ==
  /\ sockets[s].status = "new"
  /\ sockets' = [sockets EXCEPT ![s].status = "connected"]
  /\ UNCHANGED <<rounds, bets, wallets, ledger, procs, isRunning, intervalId, now,
                 nextRoundId, nextBetId, adminOps,
                 activeRooms, updateIntervals, timers>>

\* subscribeToRound(socket, gameRoundId), up to the await of the analysis
subscribeToRound(s, gameRoundId) ==
  /\ sockets[s].status = "connected"
  /\ gameRoundId \notin sockets[s].subscribing
  /\ activeRooms' =
       Extend(activeRooms, gameRoundId,
              (IF gameRoundId \in DOMAIN activeRooms THEN activeRooms[gameRoundId] ELSE {})
                \cup {s})
  /\ sockets' = [sockets EXCEPT ![s].subscribing = @ \cup {gameRoundId}]
  /\ UNCHANGED <<rounds, bets, wallets, ledger, procs, isRunning, intervalId, now,
                 nextRoundId, nextBetId, adminOps,
                 updateIntervals, timers>>

\* subscribeToRound after the await: getRoundRiskAnalysis throws for a round
\* that does not exist, otherwise the updates are started.
subscribeToRoundResumes(s, gameRoundId) ==
  /\ gameRoundId \in sockets[s].subscribing
  /\ sockets' = [sockets EXCEPT ![s].subscribing = @ \ {gameRoundId}]
  /\ IF gameRoundId \in DOMAIN rounds
     THEN startRealtimeUpdates(gameRoundId)
     ELSE UNCHANGED <<updateIntervals, timers>>
  /\ UNCHANGED <<rounds, bets, wallets, ledger, procs, isRunning, intervalId, now,
                 nextRoundId, nextBetId, adminOps,
                 activeRooms>>

\* unsubscribeFromRound(socket, gameRoundId)
unsubscribeFromRound(s, gameRoundId) ==
  /\ sockets[s].status = "connected"
  /\ IF gameRoundId \in DOMAIN activeRooms
     THEN IF activeRooms[gameRoundId] \ {s} = {}
          THEN /\ stopRealtimeUpdates(gameRoundId)
               /\ activeRooms' = [r \in DOMAIN activeRooms \ {gameRoundId} |-> activeRooms[r]]
          ELSE /\ activeRooms' = [activeRooms EXCEPT ![gameRoundId] = @ \ {s}]
               /\ UNCHANGED <<updateIntervals, timers>>
     ELSE UNCHANGED <<activeRooms, updateIntervals, timers>>
  /\ UNCHANGED <<rounds, bets, wallets, ledger, procs, isRunning, intervalId, now,
                 nextRoundId, nextBetId, adminOps,
                 sockets>>

\* handleDisconnect(socket): unsubscribeFromRound for every room that has
\* the socket.
handleDisconnect(s) ==
  /\ sockets[s].status = "connected"
  /\ sockets' = [sockets EXCEPT ![s].status = "disconnected"]
  /\ LET emptied == {r \in DOMAIN activeRooms : activeRooms[r] = {s}}
         stopped == {updateIntervals[r] : r \in emptied \cap DOMAIN updateIntervals}
     IN /\ activeRooms' = [r \in DOMAIN activeRooms \ emptied |-> activeRooms[r] \ {s}]
        /\ timers' = {t \in timers : t.id \notin stopped}
        /\ updateIntervals' = [r \in DOMAIN updateIntervals \ emptied |-> updateIntervals[r]]
  /\ UNCHANGED <<rounds, bets, wallets, ledger, procs, isRunning, intervalId, now,
                 nextRoundId, nextBetId, adminOps>>

\* handleForceResult, handleAutoResult and handleCancelRound up to the await
\* of the admin service
AdminActionAwaits(s, action, gameRoundId) ==
  /\ sockets[s].status = "connected"
  /\ Cardinality(sockets[s].acting) < MaxSocketActions
  /\ sockets' = [sockets EXCEPT ![s].acting = @ \cup {<<action, gameRoundId>>}]
  /\ UNCHANGED <<rounds, bets, wallets, ledger, procs, isRunning, intervalId, now,
                 nextRoundId, nextBetId, adminOps,
                 activeRooms, updateIntervals, timers>>

handleForceResult(s, gameRoundId) == AdminActionAwaits(s, "force-result", gameRoundId)

handleAutoResult(s, gameRoundId) == AdminActionAwaits(s, "auto-result", gameRoundId)

handleCancelRound(s, gameRoundId) == AdminActionAwaits(s, "cancel-round", gameRoundId)

\* The service resolved: the handler stops the updates of the round.
AdminActionResolves(s, action, gameRoundId) ==
  /\ <<action, gameRoundId>> \in sockets[s].acting
  /\ gameRoundId \in DOMAIN rounds
  /\ sockets' = [sockets EXCEPT ![s].acting = @ \ {<<action, gameRoundId>>}]
  /\ stopRealtimeUpdates(gameRoundId)
  /\ UNCHANGED <<rounds, bets, wallets, ledger, procs, isRunning, intervalId, now,
                 nextRoundId, nextBetId, adminOps,
                 activeRooms>>

\* The service threw: the handler reports the error and stops nothing.
AdminActionThrows(s, action, gameRoundId) ==
  /\ <<action, gameRoundId>> \in sockets[s].acting
  /\ sockets' = [sockets EXCEPT ![s].acting = @ \ {<<action, gameRoundId>>}]
  /\ UNCHANGED <<rounds, bets, wallets, ledger, procs, isRunning, intervalId, now,
                 nextRoundId, nextBetId, adminOps,
                 activeRooms, updateIntervals, timers>>

NextDashboard ==
  \E s \in Sockets :
    \/ connection(s)
    \/ handleDisconnect(s)
    \/ \E gameRoundId \in DashboardRounds :
         \/ subscribeToRound(s, gameRoundId)
         \/ subscribeToRoundResumes(s, gameRoundId)
         \/ unsubscribeFromRound(s, gameRoundId)
         \/ handleForceResult(s, gameRoundId)
         \/ handleAutoResult(s, gameRoundId)
         \/ handleCancelRound(s, gameRoundId)
         \/ \E action \in AdminActions :
              \/ AdminActionResolves(s, action, gameRoundId)
              \/ AdminActionThrows(s, action, gameRoundId)

SpecDashboard == InitLive /\ [][NextDashboard]_vars

(***************************************************************************)
(* Properties                                                              *)
(***************************************************************************)
TerminalResults == {"WON", "LOST", "CANCELLED"}

AllBetsSettled(r) == \A b \in BetIdsOfRound(r) : bets[b].result \in TerminalResults

\* The process p takes a step of the settlement loop.
SettlesBet(p) == procs[p].pc = "settle_bet" /\ procs'[p] # procs[p]

\* The BET_WON records that reference the bet b
Credits(b) ==
  {i \in DOMAIN ledger : ledger[i].type = "BET_WON" /\ ledger[i].referenceId = b}

\* C1: in every reachable state at most one round has status OPEN or PAUSED
\* together with resultStatus PENDING.
C1_AtMostOneActiveRound == Cardinality(ActiveRounds) <= 1

\* C2: settlement is idempotent: a settlement step on a RESULT_DECLARED round
\* whose bets are all WON, LOST or CANCELLED changes no bet, no wallet balance
\* and appends no ledger record, and no bet is ever credited twice.
C2_SettlementIdempotent ==
  /\ [][\A p \in Procs :
          (/\ SettlesBet(p)
           /\ procs[p].gameRoundId \in DOMAIN rounds
           /\ rounds[procs[p].gameRoundId].status = "RESULT_DECLARED"
           /\ AllBetsSettled(procs[p].gameRoundId))
          => (bets' = bets /\ wallets' = wallets /\ ledger' = ledger)]_vars
  /\ [](\A b \in DOMAIN bets : Cardinality(Credits(b)) <= 1)

\* C3: once a round's resultStatus is DECLARED it stays DECLARED, and the
\* round's number, winningColor and winningSize never change afterwards.
C3_DeclaredOnce ==
  [][\A r \in DOMAIN rounds :
       (rounds[r].resultStatus = "DECLARED" /\ r \in DOMAIN rounds')
       => /\ rounds'[r].resultStatus = "DECLARED"
          /\ rounds'[r].number = rounds[r].number
          /\ rounds'[r].winningColor = rounds[r].winningColor
          /\ rounds'[r].winningSize = rounds[r].winningSize]_vars

\* C4: a bet's result changes only from PENDING, to WON, LOST or CANCELLED;
\* a bet that is WON, LOST or CANCELLED never changes its result again.
C4_BetResultTransitions ==
  [][\A b \in DOMAIN bets :
       (b \in DOMAIN bets' /\ bets'[b].result # bets[b].result)
       => (bets[b].result = "PENDING" /\ bets'[b].result \in TerminalResults)]_vars

\* C5: once a round's status is CANCELLED or RESULT_DECLARED, no step changes
\* that round's status.
C5_TerminalStatusStays ==
  [][\A r \in DOMAIN rounds :
       (rounds[r].status \in {"CANCELLED", "RESULT_DECLARED"} /\ r \in DOMAIN rounds')
       => rounds'[r].status = rounds[r].status]_vars

\* C6: every change of a round's status is OPEN to PAUSED, PAUSED to OPEN,
\* OPEN or PAUSED to RESULT_DECLARED, or OPEN or PAUSED to CANCELLED.
LegalTransitions ==
  {<<"OPEN", "PAUSED">>, <<"PAUSED", "OPEN">>,
   <<"OPEN", "RESULT_DECLARED">>, <<"PAUSED", "RESULT_DECLARED">>,
   <<"OPEN", "CANCELLED">>, <<"PAUSED", "CANCELLED">>}

C6_LegalTransitionsOnly ==
  [][\A r \in DOMAIN rounds :
       (r \in DOMAIN rounds' /\ rounds'[r].status # rounds[r].status)
       => <<rounds[r].status, rounds'[r].status>> \in LegalTransitions]_vars

\* C7: for every user and round at most one bet row exists.
C7_OneBetPerUserAndRound ==
  \A b1 \in DOMAIN bets, b2 \in DOMAIN bets :
     (bets[b1].userId = bets[b2].userId /\ bets[b1].gameRoundId = bets[b2].gameRoundId)
     => b1 = b2

\* C8: at the moment a bet row is inserted, its round has status OPEN and
\* resultStatus PENDING.
C8_InsertOnlyIntoOpenRound ==
  [][\A b \in DOMAIN bets' \ DOMAIN bets :
       /\ rounds[bets'[b].gameRoundId].status = "OPEN"
       /\ rounds[bets'[b].gameRoundId].resultStatus = "PENDING"]_vars

\* The sum of the winAmount of the bets of round r
SumOfWinAmounts(r) ==
  LET rows == BetsOfRound(r)
  IN SumSeq([i \in 1..Len(rows) |->
               IF rows[i].winAmount = Null THEN 0 ELSE Val(rows[i].winAmount)])

\* No request is between the declaration of round r and the end of its settlement.
NoSettlementInFlight(r) ==
  \A p \in Procs :
     procs[p].gameRoundId = r => procs[p].pc \notin {"settle_find", "settle_bet"}

\* C9: for every declared round (its settlement finished), the sum of the
\* winAmount of its bets equals the stored totalPayout, and the stored profit
\* equals the stored totalCollection minus that sum.
C9_PayoutMatchesLiability ==
  \A r \in DOMAIN rounds :
     (rounds[r].resultStatus = "DECLARED" /\ NoSettlementInFlight(r))
     => /\ SumOfWinAmounts(r) = Val(rounds[r].totalPayout)
        /\ Val(rounds[r].profit) = Val(rounds[r].totalCollection) - SumOfWinAmounts(r)

\* The rule of the game for a bet and the digit d, stated on its own.
RuleWins(bet, d) ==
  \/ bet.betType = "NUMBER" /\ bet.selection = DigitStrings[d + 1]
  \/ bet.betType = "COLOR" /\ bet.selection = NUMBER_COLORS[d]
  \/ bet.betType = "COLOR" /\ bet.selection = "VIOLET" /\ d \in {0, 5}
  \/ bet.betType = "SIZE" /\ bet.selection = NUMBER_SIZES[d]

RulePayout(bet) ==
  IF bet.betType = "NUMBER" THEN (bet.amount * 850) \div 100
  ELSE IF bet.betType = "COLOR" /\ bet.selection = "VIOLET"
  THEN (bet.amount * 450) \div 100
  ELSE (bet.amount * 195) \div 100

C11_DualColorRule ==
  [][\A p \in Procs :
       SettlesBet(p)
       => LET b == Head(procs[p].snapshot).id
              d == procs[p].winningNumber
          IN (/\ bets[b].betType = "COLOR"
              /\ \/ (d = 0 /\ bets[b].selection = "GREEN")
                 \/ (d = 5 /\ bets[b].selection = "RED"))
             => /\ bets'[b].result = "WON"
                /\ bets'[b].winAmount = Some((bets[b].amount * 145) \div 100)]_vars

\* The profit of the round r if digit d is declared, from the rule of the game.
RuleProfit(r, d) ==
  LET rows == BetsOfRound(r)
  IN SumSeq([i \in 1..Len(rows) |-> rows[i].amount])
       - SumSeq([i \in 1..Len(rows) |->
                   IF RuleWins(rows[i], d) THEN RulePayout(rows[i]) ELSE 0])

\* The selector of the declareResult call of p names a digit whose profit is
\* below -MAX_LOSS_PER_ROUND for the bets now in the round.
ExceedsMaxLoss(p) ==
  /\ procs[p].pc = "declare_validate"
  /\ BetIdsOfRound(procs[p].gameRoundId) # {}
  /\ TargetNumber(procs[p].arg) # -1
  /\ RuleProfit(procs[p].gameRoundId, TargetNumber(procs[p].arg)) < -MAX_LOSS_PER_ROUND

\* C12: a declareResult call whose selector's representative digit has profit
\* below -MAX_LOSS_PER_ROUND ends at the validation and changes no round, no
\* bet, no wallet and no ledger record.
C12_AdminRejection ==
  [][\A p \in Procs :
       (ExceedsMaxLoss(p) /\ procs'[p] # procs[p])
       => /\ procs'[p] = Idle
          /\ UNCHANGED <<rounds, bets, wallets, ledger>>]_vars

\* The admin asks for digit 7 on a round whose only bet is NUMBER 7: the
\* candidate's profit is negative.
C12_ForcedLosingDigit ==
  \E p \in Procs :
    /\ ExceedsMaxLoss(p)
    /\ procs[p].arg = "7"
    /\ \E b \in BetIdsOfRound(procs[p].gameRoundId) :
         bets[b].betType = "NUMBER" /\ bets[b].selection = "7"
    /\ rounds[procs[p].gameRoundId].resultStatus = "PENDING"

\* The bets of round r that are PENDING now
PendingBets(r) == {b \in BetIdsOfRound(r) : bets[b].result = "PENDING"}

\* The ledger records appended by the step
AppendedRecords == [i \in 1..(Len(ledger') - Len(ledger)) |-> ledger'[Len(ledger) + i]]

\* C13: the transaction of a cancelRound call that read every PENDING bet of
\* the round (no placement is in flight, none completed since the read) sets
\* the round to CANCELLED, writes every PENDING bet as CANCELLED with
\* winAmount 0, appends exactly one ledger record for it, a REFUND of its
\* stake to its owner, and raises every wallet by the refunds appended for it.
C13_CancelRefundsPending ==
  [][\A p \in Procs :
       (/\ procs[p].pc = "cancel_transaction"
        /\ procs'[p] # procs[p]
        /\ InFlight({"place"}) = 0
        /\ PendingBets(procs[p].gameRoundId)
             \subseteq {procs[p].snapshot[i].id : i \in 1..Len(procs[p].snapshot)})
       => LET r == procs[p].gameRoundId
          IN /\ rounds'[r].status = "CANCELLED"
             /\ Len(ledger') >= Len(ledger)
             /\ SubSeq(ledger', 1, Len(ledger)) = ledger
             /\ \A b \in PendingBets(r) :
                  /\ bets'[b].result = "CANCELLED"
                  /\ bets'[b].winAmount = Some(0)
                  /\ \E i \in 1..Len(AppendedRecords) :
                       /\ AppendedRecords[i] =
                            [userId |-> bets[b].userId, type |-> "REFUND",
                             amount |-> bets[b].amount, referenceId |-> b]
                       /\ \A j \in 1..Len(AppendedRecords) :
                            AppendedRecords[j].referenceId = b => j = i
             /\ \A u \in DOMAIN wallets :
                  wallets'[u] = wallets[u]
                    + SumSeq([i \in 1..Len(AppendedRecords) |->
                                IF AppendedRecords[i].userId = u
                                THEN AppendedRecords[i].amount ELSE 0])]_vars

\* A cancelled round whose three bets of 50, 75 and 20 are CANCELLED with
\* winAmount 0, refunded once each, every wallet back at its first balance.
C13_ThreeBetsRefunded ==
  /\ rounds[1].status = "CANCELLED"
  /\ rounds[1].resultStatus = "PENDING"
  /\ DOMAIN bets = 1..3
  /\ {bets[b].amount : b \in DOMAIN bets} = {5000, 7500, 2000}
  /\ \A b \in DOMAIN bets :
       /\ bets[b].result = "CANCELLED" /\ bets[b].winAmount = Some(0)
       /\ Cardinality({i \in DOMAIN ledger :
                         ledger[i] = [userId |-> bets[b].userId, type |-> "REFUND",
                                      amount |-> bets[b].amount, referenceId |-> b]}) = 1
       /\ wallets[bets[b].userId] = SettleBalance
  /\ Len(ledger) = 6

\* The REFUND records that reference the bet b
Refunds(b) ==
  {i \in DOMAIN ledger : ledger[i].type = "REFUND" /\ ledger[i].referenceId = b}

\* C14: a cancelled round is never declared and a declared round is never
\* cancelled, and no bet has both a REFUND record and a settlement (a result
\* WON or LOST, or a BET_WON record).
C14_CancelExcludesDeclare ==
  /\ [][\A r \in DOMAIN rounds :
          r \in DOMAIN rounds'
          => /\ (rounds[r].status = "CANCELLED" /\ rounds[r].resultStatus = "PENDING")
                  => rounds'[r].resultStatus = "PENDING"
             /\ rounds[r].resultStatus = "DECLARED"
                  => rounds'[r].status # "CANCELLED"]_vars
  /\ [](\A b \in DOMAIN bets :
          Refunds(b) # {} => (bets[b].result \notin {"WON", "LOST"} /\ Credits(b) = {}))

\* C15: for a round with bets, the selection step of autoCalculateResult
\* returns one of the ten candidates whatever the random draws are, and the
\* call goes on to store and declare it.
C15_SelectionNeverFails ==
  [][\A p \in Procs :
       (/\ procs[p].pc = "auto_calculate"
        /\ procs'[p] # procs[p]
        /\ BetIdsOfRound(procs[p].gameRoundId) # {})
       => /\ procs'[p].pc = "auto_store"
          /\ procs'[p].profitData.number \in Digits]_vars

\* C16: with the scheduler running fairly, the first round eventually is
\* DECLARED or CANCELLED (and with it its bets WON, LOST or CANCELLED).
C16_EveryRoundCompletes ==
  (1 \in DOMAIN rounds)
    ~> (rounds[1].resultStatus = "DECLARED" \/ rounds[1].status = "CANCELLED")

\* C17: when a declared round has bets still PENDING next to bets already
\* settled and no other request is settling it (its settlement was
\* interrupted), a settlement step of a later invocation touches only a bet
\* that is still PENDING.
C17_ResumeTouchesOnlyPending ==
  [][\A p \in Procs :
       (/\ SettlesBet(p)
        /\ procs[p].gameRoundId \in DOMAIN rounds
        /\ rounds[procs[p].gameRoundId].resultStatus = "DECLARED"
        /\ ~AllBetsSettled(procs[p].gameRoundId)
        /\ \A q \in Procs \ {p} :
             procs[q].gameRoundId = procs[p].gameRoundId
             => procs[q].pc \notin {"settle_find", "settle_bet"})
       => bets[Head(procs[p].snapshot).id].result = "PENDING"]_vars

\* C18: at most one execution of processGameRounds is in progress at any
\* time.
C18_TickSerialized == Cardinality({p \in Procs : procs[p].op = "tick"}) <= 1

\* C19: once a declaration has completed (no request is in progress), at
\* most KEEP_ROUNDS rounds have resultStatus DECLARED.
C19_RetentionCap ==
  (\A p \in Procs : procs[p] = Idle) => Cardinality(DeclaredRounds) <= KEEP_ROUNDS

\* The program counters of a request that is still in its checks
CheckPcs ==
  {"place_round", "place_wallet", "place_existing",
   "declare_find", "declare_validate", "cancel_find", "status_find"}

\* C20: a step of a request that is still in its checks, the step that
\* rejects it included, leaves rounds, bets, wallets and the ledger unchanged.
C20_RejectionChangesNothing ==
  [][\A p \in Procs :
       (procs[p].pc \in CheckPcs /\ procs'[p] # procs[p])
       => UNCHANGED <<rounds, bets, wallets, ledger>>]_vars

\* An admin call on a round declared by the system has been rejected.
C20_AdminCallRejected ==
  /\ adminOps = 1
  /\ \A p \in Procs : procs[p] = Idle
  /\ rounds[1].resultStatus = "DECLARED"
  /\ rounds[1].resultDeclaredBy = "SYSTEM"

\* The rows in the opposite order (findMany has no orderBy)
Reverse(rows) == [i \in 1..Len(rows) |-> rows[Len(rows) + 1 - i]]

\* The ranking is the ten candidates, descending by profit, equal profits in
\* ascending digit order.
IsStableRanking(rows, results) ==
  /\ Len(results) = 10
  /\ \A d \in Digits : \E i \in 1..10 : results[i] = Candidate(rows, d)
  /\ \A i \in 1..9 :
       \/ results[i].profit > results[i + 1].profit
       \/ /\ results[i].profit = results[i + 1].profit
          /\ results[i].number < results[i + 1].number

\* C21: for the bets of the round, calculateAllResultsLiability returns the
\* ten candidates in descending order of profit with equal profits in
\* ascending digit order, and the same ranking when the rows are read in
\* another order.
C21_RankingStable ==
  LET rows == BetsOfRound(1)
  IN rows # <<>>
     => /\ IsStableRanking(rows, calculateAllResultsLiability(rows).results)
        /\ calculateAllResultsLiability(Reverse(rows)).results
             = calculateAllResultsLiability(rows).results

\* A calculation was made for two bets whose ranking has equal and unequal profits.
C21_RankedWithTies ==
  /\ procs[1].pc = "auto_store"
  /\ Len(BetsOfRound(1)) = 2
  /\ LET results == calculateAllResultsLiability(BetsOfRound(1)).results
     IN /\ \E i \in 1..9 : results[i].profit = results[i + 1].profit
        /\ \E i \in 1..9 : results[i].profit > results[i + 1].profit

\* C22: periods are unique among the rounds, and gameRound.create is never
\* executed for a period that a round already has (the unique index would
\* answer with an error instead of the existing round).
C22_CreationIdempotent ==
  /\ [](\A r, q \in DOMAIN rounds : rounds[r].period = rounds[q].period => r = q)
  /\ [][\A p \in Procs :
          (procs[p].pc = "create_insert" /\ procs'[p] # procs[p])
          => ~\E r \in DOMAIN rounds : rounds[r].period = procs[p].period]_vars

\* C23: no wallet balance is negative.
C23_BalanceNeverNegative == \A u \in DOMAIN wallets : wallets[u] >= 0

\* The process p has the system's choice for its round in hand.
SystemSelects(p) == procs[p].pc = "auto_calculate" /\ procs'[p].pc = "auto_store"

\* Some digit keeps the loss of round r within MAX_LOSS_PER_ROUND.
SomeAcceptable(r) == \E d \in Digits : RuleProfit(r, d) >= -MAX_LOSS_PER_ROUND

NoneAcceptable(r) == \A d \in Digits : RuleProfit(r, d) < -ConfiguredMaxLoss

ValidatesValidSelector(p) ==
  /\ procs[p].pc = "declare_validate"
  /\ TargetNumber(procs[p].arg) # -1
  /\ procs'[p] # procs[p]

\* The profit of the representative digit of p's selector is at least zero
\* and below MIN_PROFIT_PERCENT of the collection of round r.
AcceptableNotProfitable(r, d) ==
  LET rows == BetsOfRound(r)
      collection == SumSeq([i \in 1..Len(rows) |-> rows[i].amount])
  IN /\ rows # <<>>
     /\ RuleProfit(r, d) >= -MAX_LOSS_PER_ROUND
     /\ RuleProfit(r, d) * 100 < MIN_PROFIT_PERCENT * collection

\* C26: the validation of a declareResult call with a valid selector on an
\* undeclared, non-cancelled round lets the call continue exactly when the
\* round has no bets or the profit of the selector's representative digit is
\* at least -MAX_LOSS_PER_ROUND, a profit below MIN_PROFIT_PERCENT included;
\* the accepted call then writes the round as declared by the admin.
C26_AdminAcceptance ==
  [][\A p \in Procs :
       /\ ValidatesValidSelector(p)
          => LET r == procs[p].gameRoundId
             IN (procs'[p].pc = "declare_calculate")
                  <=> \/ BetIdsOfRound(r) = {}
                      \/ RuleProfit(r, TargetNumber(procs[p].arg)) >= -MAX_LOSS_PER_ROUND
       /\ (procs[p].pc = "declare_update" /\ procs'[p] # procs[p])
          => LET r == procs[p].gameRoundId
             IN /\ rounds'[r].resultStatus = "DECLARED"
                /\ rounds'[r].resultDeclaredBy = "ADMIN"
                /\ rounds'[r].number = Some(procs[p].winningNumber)
                /\ procs'[p].pc = "settle_find"]_vars

\* A round declared by the admin with a digit whose profit is acceptable but
\* below the minimum, and both of its bets settled.
C26_UnprofitableDeclared ==
  /\ rounds[1].resultStatus = "DECLARED"
  /\ rounds[1].resultDeclaredBy = "ADMIN"
  /\ Len(BetsOfRound(1)) = 2
  /\ AcceptableNotProfitable(1, rounds[1].number[1])
  /\ \A b \in BetIdsOfRound(1) : bets[b].result \in {"WON", "LOST"}
  /\ \A p \in Procs : procs[p] = Idle

\* The loss realised on round r: the winAmount credited to its WON bets
\* minus the stakes of its bets.
RealisedLoss(r) ==
  LET rows == BetsOfRound(r)
  IN SumSeq([i \in 1..Len(rows) |->
               IF rows[i].result = "WON" THEN rows[i].winAmount[1] ELSE 0])
       - SumSeq([i \in 1..Len(rows) |-> rows[i].amount])

\* C27: the loss realised on a round declared by an admin is at most
\* MAX_LOSS_PER_ROUND, also when bets are placed on the round while
\* declareResult is between its validation and its settlement read.
C27_AdminLossBounded ==
  \A r \in DOMAIN rounds :
    (rounds[r].resultStatus = "DECLARED" /\ rounds[r].resultDeclaredBy = "ADMIN")
      => RealisedLoss(r) <= MAX_LOSS_PER_ROUND

\* The scheduler tick p writes the result of its round in this step.
TickDeclares(p) ==
  /\ procs[p].op = "tick"
  /\ procs[p].pc = "auto_save"
  /\ procs'[p] # procs[p]

\* C28: when the scheduler tick declares a round, the round is OPEN, its
\* resultStatus is PENDING and its duration has passed at that moment; in
\* particular the tick never declares a round that is PAUSED, also when the
\* admin paused it while the tick was in progress.
C28_TickDeclaresOnlyOpenExpired ==
  [][\A p \in Procs :
       TickDeclares(p)
       => LET r == procs[p].gameRoundId
          IN /\ rounds[r].status = "OPEN"
             /\ rounds[r].resultStatus = "PENDING"
             /\ rounds[r].expired]_vars

\* C29: in both declaration paths the round is written DECLARED before the
\* first of its bets is settled: every step that settles a bet finds the
\* round's resultStatus DECLARED, and no bet is WON or LOST while the
\* resultStatus of its round is PENDING.
C29_DeclaredBeforeSettled ==
  /\ [](\A b \in DOMAIN bets :
         (bets[b].result \in {"WON", "LOST"} /\ bets[b].gameRoundId \in DOMAIN rounds)
           => rounds[bets[b].gameRoundId].resultStatus = "DECLARED")
  /\ [][\A p \in Procs :
         (procs[p].pc = "settle_bet" /\ bets' # bets)
           => /\ procs[p].gameRoundId \in DOMAIN rounds
              /\ rounds[procs[p].gameRoundId].resultStatus = "DECLARED"]_vars

\* A bet settled on a round declared by the system and a bet settled on a
\* round declared by the admin.
C29_BothPathsSettled ==
  \E b, c \in DOMAIN bets :
    /\ bets[b].result \in {"WON", "LOST"}
    /\ bets[c].result \in {"WON", "LOST"}
    /\ bets[b].gameRoundId \in DOMAIN rounds
    /\ bets[c].gameRoundId \in DOMAIN rounds
    /\ rounds[bets[b].gameRoundId].resultDeclaredBy = "SYSTEM"
    /\ rounds[bets[c].gameRoundId].resultDeclaredBy = "ADMIN"

\* C30: a round has resultStatus DECLARED exactly when its status is
\* RESULT_DECLARED, and then its number, winningColor, winningSize, endTime
\* and declaring actor are set, also under updateRoundStatus and cancelRound
\* calls that read the round before a declaration and write after it.
C30_DeclaredIffResultDeclared ==
  \A r \in DOMAIN rounds :
    /\ (rounds[r].resultStatus = "DECLARED") <=> (rounds[r].status = "RESULT_DECLARED")
    /\ rounds[r].resultStatus = "DECLARED"
         => /\ rounds[r].number # Null
            /\ rounds[r].winningColor # "null"
            /\ rounds[r].winningSize # "null"
            /\ rounds[r].endTime # Null
            /\ rounds[r].resultDeclaredBy \in {"ADMIN", "SYSTEM"}

\* The sum of the amounts of the ledger records of user u whose type is in types
LedgerSum(u, types) ==
  SumSeq([i \in 1..Len(ledger) |->
            IF ledger[i].userId = u /\ ledger[i].type \in types
            THEN ledger[i].amount ELSE 0])

\* The BET_WON records that reference bet b
WonRecords(b) ==
  {i \in 1..Len(ledger) : ledger[i].type = "BET_WON" /\ ledger[i].referenceId = b}

\* C31: each user's wallet equals the initial balance minus the BET_PLACED
\* records plus the BET_WON and REFUND records of the user; a WON bet has a
\* BET_WON record of its winAmount that references it; a LOST bet has
\* winAmount 0 and no BET_WON record.
C31_WalletMatchesLedger ==
  /\ \A u \in DOMAIN wallets :
       wallets[u] = InitialBalance - LedgerSum(u, {"BET_PLACED"})
                      + LedgerSum(u, {"BET_WON", "REFUND"})
  /\ \A b \in DOMAIN bets :
       /\ bets[b].result = "WON"
            => \E i \in WonRecords(b) : ledger[i].amount = Val(bets[b].winAmount)
       /\ bets[b].result = "LOST"
            => bets[b].winAmount = Some(0) /\ WonRecords(b) = {}

\* C32: the transaction of cancelRound is all or nothing: a step that leaves
\* it either changes no round, bet, wallet or ledger record, or cancels the
\* round and refunds every bet read as PENDING; a round that is not
\* CANCELLED has no refunded or CANCELLED bet, and after any number of
\* failures and a retry every bet has exactly one REFUND record.  The retry
\* is sent after the failed request is answered, so one cancelRound request
\* is in flight at a time.
C32_CancelAllOrNothing ==
  /\ [](\A b \in DOMAIN bets :
          IF rounds[bets[b].gameRoundId].status = "CANCELLED"
          THEN bets[b].result = "CANCELLED" /\ Cardinality(Refunds(b)) = 1
          ELSE bets[b].result = "PENDING" /\ Refunds(b) = {})
  /\ [][\A p \in Procs :
          (procs[p].pc = "cancel_transaction" /\ procs'[p] # procs[p])
          => \/ UNCHANGED <<rounds, bets, wallets, ledger>>
             \/ /\ rounds'[procs[p].gameRoundId].status = "CANCELLED"
                /\ \A b \in PendingBets(procs[p].gameRoundId) :
                     /\ bets'[b].result = "CANCELLED"
                     /\ wallets'[bets[b].userId] = wallets[bets[b].userId] + bets[b].amount]_vars

\* The round is cancelled on the third attempt, after two failed ones, and
\* each of its three bets has one REFUND record and its stake back.
C32_CancelledOnRetry ==
  /\ rounds[1].status = "CANCELLED"
  /\ rounds[1].endTime = Some(3)
  /\ DOMAIN bets = 1..3
  /\ \A b \in DOMAIN bets :
       /\ bets[b].result = "CANCELLED"
       /\ Cardinality(Refunds(b)) = 1
       /\ wallets[bets[b].userId] = SettleBalance

\* C33: for a round with bets, the candidate of every digit d has
\* totalCollection equal to the sum of all stakes, profit equal to
\* totalCollection minus totalLiability, isAcceptable exactly when the profit
\* is at least -MAX_LOSS_PER_ROUND and isProfitable exactly when the profit is
\* at least 0 and at least MIN_PROFIT_PERCENT of the collection; its
\* totalLiability counts the payout of each winning bet once.
C33_CandidateFields ==
  LET rows == BetsOfRound(1)
      calculation == calculateAllResultsLiability(rows)
      stakes == SumSeq([i \in 1..Len(rows) |-> rows[i].amount])
  IN rows # <<>>
     => /\ Len(calculation.results) = 10
        /\ \A d \in Digits :
             LET c == FindResult(calculation, d)
             IN /\ c.number = d
                /\ c.totalCollection = stakes
                /\ c.profit = c.totalCollection - c.totalLiability
                /\ c.totalLiability =
                     SumSeq([i \in 1..Len(rows) |->
                               IF RuleWins(rows[i], d) THEN RulePayout(rows[i]) ELSE 0])
                /\ c.isAcceptable <=> (c.profit >= -MAX_LOSS_PER_ROUND)
                /\ c.isProfitable <=> (c.profit >= 0
                                        /\ c.profit * 100 >= MIN_PROFIT_PERCENT * stakes)

\* The calculation has run on two bets for which one digit is profitable,
\* one is acceptable without being profitable and one is not acceptable.
C33_ThreeKindsOfCandidate ==
  /\ procs[1].pc \in {"auto_store", "declare_update"}
  /\ Len(BetsOfRound(1)) = 2
  /\ LET results == calculateAllResultsLiability(BetsOfRound(1)).results
     IN /\ \E i \in 1..Len(results) : results[i].isProfitable
        /\ \E i \in 1..Len(results) : results[i].isAcceptable /\ ~results[i].isProfitable
        /\ \E i \in 1..Len(results) : ~results[i].isAcceptable

\* The sum of the winAmount that a settlement with digit d computes for the rows
SettlementPayout(rows, d) ==
  SumSeq([i \in 1..Len(rows) |->
            SettleOutcome(rows[i], d, NUMBER_COLORS[d], NUMBER_SIZES[d]).winAmount])

DeclareAccepted(p) ==
  /\ procs[p].op = "declare"
  /\ procs[p].pc \in {"declare_calculate", "declare_update", "settle_find", "settle_bet"}

\* C35: a digit selector resolves to itself, GREEN to 1, RED to 2, VIOLET to
\* 0, SMALL to 0 and BIG to 5; the digit that validateAdminResult checks is
\* the digit that declareResult stores on the round and settles with; and the
\* winningColor and winningSize of a declared round are the colour and size
\* of its number.
C35_SelectorResolution ==
  /\ [](/\ \A d \in Digits : TargetNumber(DigitStrings[d + 1]) = d
        /\ TargetNumber("GREEN") = 1 /\ TargetNumber("RED") = 2
        /\ TargetNumber("VIOLET") = 0 /\ TargetNumber("SMALL") = 0
        /\ TargetNumber("BIG") = 5
        /\ \A p \in Procs :
             DeclareAccepted(p)
             => /\ procs[p].winningNumber = TargetNumber(procs[p].arg)
                /\ procs[p].pc \in {"settle_find", "settle_bet"}
                     => rounds[procs[p].gameRoundId].number = Some(TargetNumber(procs[p].arg))
        /\ \A r \in DOMAIN rounds :
             rounds[r].resultStatus = "DECLARED"
             => /\ rounds[r].winningColor = NUMBER_COLORS[Val(rounds[r].number)]
                /\ rounds[r].winningSize = NUMBER_SIZES[Val(rounds[r].number)])
  /\ [][\A p \in Procs :
          (procs[p].pc = "declare_update" /\ procs'[p] # procs[p])
          => rounds'[procs[p].gameRoundId].number = Some(TargetNumber(procs[p].arg))]_vars

\* The admin's selector "red" is being settled as digit 2, RED, SMALL.
C35_RedResolvedToTwo ==
  \E p \in Procs :
    /\ procs[p].op = "declare"
    /\ procs[p].pc = "settle_bet"
    /\ procs[p].arg = "red"
    /\ procs[p].winningNumber = 2
    /\ rounds[1].number = Some(2)
    /\ rounds[1].winningColor = "RED"
    /\ rounds[1].winningSize = "SMALL"

\* C36: the periods of the rounds are pairwise different, a round that is
\* created has a sequence above the sequence of every round of the day, and
\* the period that createNewGameRound generates when no other creation is
\* running is above the sequence of every round of the day, also past
\* sequence 9999.
C36_PeriodsIncrease ==
  /\ [](\A r, q \in DOMAIN rounds : rounds[r].period = rounds[q].period => r = q)
  /\ [][\A q \in DOMAIN rounds' \ DOMAIN rounds :
          \A r \in DOMAIN rounds : rounds'[q].period > rounds[r].period]_vars
  /\ [][\A p \in Procs :
          (/\ procs[p].pc = "create_generate"
           /\ procs'[p].pc = "create_check"
           /\ InFlight({"tick", "current", "ensure"}) = 1)
          => \A r \in DOMAIN rounds : procs'[p].period > rounds[r].period]_vars

\* C37: for a round without bets the system selection succeeds with a digit
\* of 0..9 and collection, payout and profit 0, every digit of 0..9 is the
\* selection for some random draw, and the declaration stores that digit
\* with collection, payout and profit 0.
C37_NoBetsDeclaration ==
  /\ [](\A p \in Procs :
          (procs[p].pc = "auto_calculate" /\ BetIdsOfRound(procs[p].gameRoundId) = {})
          => {calculateOptimalResult(BetsOfRound(procs[p].gameRoundId), r0, r0, r0).number :
                r0 \in AllDraws} = Digits)
  /\ [][\A p \in Procs :
          /\ (SystemSelects(p) \/ (procs[p].pc = "auto_calculate" /\ procs'[p] # procs[p]))
               /\ BetIdsOfRound(procs[p].gameRoundId) = {}
             => /\ procs'[p].pc = "auto_store"
                /\ procs'[p].profitData.number \in Digits
                /\ procs'[p].profitData.totalCollection = 0
                /\ procs'[p].profitData.totalLiability = 0
                /\ procs'[p].profitData.profit = 0
          /\ (procs[p].pc = "auto_save" /\ procs'[p] # procs[p]
                /\ BetIdsOfRound(procs[p].gameRoundId) = {})
             => LET r == procs[p].gameRoundId
                IN /\ rounds'[r].resultStatus = "DECLARED"
                   /\ rounds'[r].number = Some(procs[p].profitData.number)
                   /\ Val(rounds'[r].number) \in Digits
                   /\ rounds'[r].totalCollection = Some(0)
                   /\ rounds'[r].totalPayout = Some(0)
                   /\ rounds'[r].profit = Some(0)]_vars

\* The round without bets is declared by the system with digit 4.
C37_FourDeclaredWithoutBets ==
  /\ bets = <<>>
  /\ rounds[1].resultStatus = "DECLARED"
  /\ rounds[1].resultDeclaredBy = "SYSTEM"
  /\ rounds[1].number = Some(4)
  /\ rounds[1].profit = Some(0)
  /\ \A p \in Procs : procs[p].pc = "idle"

\* C38: every round has at most one periodic update timer, and the round of
\* a running timer has a connected socket that is subscribed to it.
C38_TimerOnlyWhileSubscribed ==
  /\ \A r \in DashboardRounds : Cardinality({t \in timers : t.gameRoundId = r}) <= 1
  /\ \A t \in timers :
       /\ t.gameRoundId \in DOMAIN activeRooms
       /\ \E s \in activeRooms[t.gameRoundId] : sockets[s].status = "connected"

\* At most one timer per round, and every timer is the one that
\* updateIntervals holds for its round.
C38_OneTimerPerRound ==
  /\ \A r \in DashboardRounds : Cardinality({t \in timers : t.gameRoundId = r}) <= 1
  /\ \A t \in timers :
       t.gameRoundId \in DOMAIN updateIntervals /\ updateIntervals[t.gameRoundId] = t.id

\* C39: for the (digit, color, size) triple of every declaration and every
\* bet, BetService.processBets and GameAdminService.processBetsWithResult
\* assign the same result and the same winAmount.
C39_SettlementsInterchangeable ==
  \A p \in Procs :
    procs[p].winningNumber \in Digits
    => /\ \A choice \in SettleChoices, amount \in SettleStakes :
            LET bet == [betType |-> choice[1], selection |-> choice[2], amount |-> amount]
            IN processBets(bet, procs[p].winningNumber, procs[p].winningColor,
                           procs[p].winningSize)
               = SettleOutcome(bet, procs[p].winningNumber, procs[p].winningColor,
                               procs[p].winningSize)
       /\ \A i \in 1..Len(procs[p].snapshot) :
            processBets(procs[p].snapshot[i], procs[p].winningNumber,
                        procs[p].winningColor, procs[p].winningSize)
            = SettleOutcome(procs[p].snapshot[i], procs[p].winningNumber,
                            procs[p].winningColor, procs[p].winningSize)

\* A declaration of a dual-colour digit is about to settle a GREEN or RED bet.
C39_DualDigitSettlesPlainColor ==
  \E p \in Procs :
    /\ procs[p].pc = "settle_bet"
    /\ procs[p].winningNumber \in {0, 5}
    /\ Head(procs[p].snapshot).betType = "COLOR"
    /\ Head(procs[p].snapshot).selection \in {"GREEN", "RED"}

====
